---- MODULE Spec2Model ----
(***************************************************************************)
(* Model of s3_insight's aggregation engine (src/src/s3_insight/aggregate.py) *)
(* S3Aggregator: aggregate_buckets, _compute_bucket_metrics and             *)
(* aggregate_account, applied to inventory mappings.                        *)
(*                                                                         *)
(* Python values are modelled as follows.                                   *)
(*   dict with string keys and a fixed schema  -> TLA+ record (a function   *)
(*        on strings; a missing key is a string outside DOMAIN)             *)
(*   dict used as an ordered mapping           -> sequence of [k, v]        *)
(*        entries in insertion order                                        *)
(*   int                                       -> Int                       *)
(*   float                                     -> [m, e], the value m*2^e,  *)
(*        m odd or zero, with every operation rounded to nearest-even at    *)
(*        MantissaBits bits of precision (53 in CPython)                    *)
(***************************************************************************)
EXTENDS Integers, Sequences, FiniteSets, TLC

VARIABLES
    inventory_data,   \* the mapping handed to aggregate_buckets / write_inventory
    bucket_metrics,   \* the mapping aggregate_buckets returned
    account_metrics,  \* the mapping aggregate_account returned
    raised,           \* the exception that reached the caller, or "none"
    pc,               \* position of the aggregation pipeline
    bucket_data,      \* a bucket's record: what _inventory_bucket returned, or
                      \* what _compute_bucket_metrics is handed
    metrics,          \* what _compute_bucket_metrics returned for it
    top_n,            \* the top_n argument of a ranking helper
    sort_by,          \* the sort_by argument of get_top_buckets
    top,              \* the list a ranking helper returned
    inventory_file,   \* the lines of the JSONL inventory file
    loaded,           \* the mapping load_inventory returned
    key,              \* the object key handed to _get_file_extension
    extension,        \* the label _get_file_extension returned
    listing,          \* the objects of a bucket, as list_objects_v2 lists them
    scan,             \* the S3Inventory's sample_size and, once it runs, the
                      \* locals of _inventory_bucket
    aggregator,       \* the attributes of the S3Aggregator instance
    futures           \* the tasks of collect_inventory, one per requested bucket

aggVars == <<inventory_data, bucket_metrics, account_metrics, bucket_data, metrics>>

rankVars == <<top_n, sort_by, top>>

fileVars == <<inventory_file, loaded>>

extVars == <<key, extension>>

scanVars == <<listing, scan>>

vars == <<inventory_data, bucket_metrics, account_metrics, raised, pc,
          bucket_data, metrics, top_n, sort_by, top, inventory_file, loaded,
          key, extension, listing, scan, aggregator, futures>>

----------------------------------------------------------------------------
(* Bounds of the model *)

MaxBuckets == 3       \* entries in an inventory mapping
MaxCount == 3         \* object counts and histogram counts of one record
MaxSize == 2          \* total_size of one record, in bytes
MantissaBits == 5     \* precision of the modelled binary floating point

(* Program constants *)

KiBExp == 10          \* 1024      = 2^10
GiBExp == 30          \* 1024**3   = 2^30
TiBExp == 40          \* 1024**4   = 2^40
Hundred == 100        \* percentages are count / total * 100
ThirtyDays == 720     \* timedelta(days=30), in hours
SampleThreshold == 100000000   \* buckets above it are sampled
DefaultSampleSize == 100000    \* S3Inventory(sample_size=100000)
PageSize == 1000      \* PaginationConfig={'PageSize': 1000}
DefaultMaxWorkers == 10        \* S3Inventory(max_workers=10)
DefaultTop == 10      \* stats --top, default 10

----------------------------------------------------------------------------
(* Binary floating point: Python's float arithmetic *)

RECURSIVE Pow2(_)
Pow2(n) == IF n = 0 THEN 1 ELSE 2 * Pow2(n - 1)

FZero == [m |-> 0, e |-> 0]

\* what an expression evaluates to once a division by zero has raised
\* ZeroDivisionError in it: the exception, carried through the expression
ZeroDivisionError == [m |-> -1, e |-> 0]

Raises(x) == x.m < 0

\* the canonical representation of m * 2^e
RECURSIVE FNorm(_, _)
FNorm(m, e) ==
    IF m = 0 THEN FZero
    ELSE IF m % 2 = 0 THEN FNorm(m \div 2, e + 1)
    ELSE [m |-> m, e |-> e]

\* a float's significand lies in MinSignificand .. MaxSignificand - 1
MaxSignificand == Pow2(MantissaBits)

MinSignificand == Pow2(MantissaBits - 1)

\* the float nearest to (n / d) * 2^e, ties to even; n >= 0, d > 0
RECURSIVE RoundRat(_, _, _)
RoundRat(n, d, e) ==
    IF n = 0 THEN FZero
    ELSE IF d = 1 /\ n < MaxSignificand THEN FNorm(n, e)    \* exact
    ELSE IF n >= d * MaxSignificand THEN RoundRat(n, 2 * d, e + 1)
    ELSE IF n < d * MinSignificand THEN RoundRat(2 * n, d, e - 1)
    ELSE LET q == n \div d
             r == n % d
             up == (2 * r > d) \/ (2 * r = d /\ q % 2 = 1)
         IN  FNorm(IF up THEN q + 1 ELSE q, e)

\* float(n) for an int n >= 0
IntToF(n) == RoundRat(n, 1, 0)

\* a / b for two ints (Python's true division is correctly rounded)
IntDiv(a, b) == IF b = 0 THEN ZeroDivisionError ELSE RoundRat(a, b, 0)

\* x * y and x + y for two floats
FMul(x, y) ==
    IF Raises(x) \/ Raises(y) THEN ZeroDivisionError
    ELSE RoundRat(x.m * y.m, 1, x.e + y.e)

FAdd(x, y) ==
    IF Raises(x) \/ Raises(y) THEN ZeroDivisionError
    ELSE LET lo == IF x.e <= y.e THEN x.e ELSE y.e
         IN  RoundRat(x.m * Pow2(x.e - lo) + y.m * Pow2(y.e - lo), 1, lo)

\* x / 2^k: a division by a power of two only moves the exponent
FDivPow2(x, k) ==
    IF Raises(x) THEN ZeroDivisionError
    ELSE IF x.m = 0 THEN FZero ELSE [m |-> x.m, e |-> x.e - k]

----------------------------------------------------------------------------
(* Ordered mappings: Python dicts keep insertion order *)

EmptyDict == <<>>

KeySeq(d) == [i \in 1..Len(d) |-> d[i].k]

KeySet(d) == {d[i].k : i \in 1..Len(d)}

HasKey(d, k) == k \in KeySet(d)

Get(d, k) == d[CHOOSE i \in 1..Len(d) : d[i].k = k].v

\* d[k] = v: a new key is appended, an existing key keeps its position
Put(d, k, v) ==
    IF HasKey(d, k)
    THEN [i \in 1..Len(d) |-> IF d[i].k = k THEN [k |-> k, v |-> v] ELSE d[i]]
    ELSE Append(d, [k |-> k, v |-> v])

----------------------------------------------------------------------------
(* S3Aggregator._compute_bucket_metrics *)

\* the keys _compute_bucket_metrics reads with bucket_data[...]
RequiredFields ==
    {"object_count", "total_size", "bucket_name", "region",
     "storage_classes", "file_extensions", "age_buckets", "inventory_date"}

\* a record missing one of them raises KeyError
Complete(bd) == RequiredFields \subseteq DOMAIN bd

\* mutant: the average without its guard
AvgObjectSize_Unguarded(total_size, object_count) == IntDiv(total_size, object_count)

\* total_size / object_count, guarded: 0 when there are no objects
AvgObjectSize(total_size, object_count) ==
    IF object_count > 0 THEN IntDiv(total_size, object_count) ELSE FZero

\* mutant: the average taken with floor division
EstimatedSize_FloorAvg(count, total_size, object_count) ==
    FMul(IntToF(count), IntToF(total_size \div object_count))

\* estimated_size = count * avg_object_size
EstimatedSize(count, total_size, object_count) ==
    FMul(IntToF(count), IntDiv(total_size, object_count))

\* mutant: a fraction instead of a percentage
Percentage_Fraction(count, total) == IntDiv(count, total)

\* (count / total) * 100
Percentage(count, total) == FMul(IntDiv(count, total), IntToF(Hundred))

\* one entry of storage_class_breakdown
ClassBreakdown(count, total_size, object_count) ==
    IF object_count > 0
    THEN [count |-> count,
          size |-> EstimatedSize(count, total_size, object_count),
          size_gb |-> FDivPow2(EstimatedSize(count, total_size, object_count), GiBExp),
          percentage |-> Percentage(count, object_count)]
    ELSE [count |-> 0, size |-> FZero, size_gb |-> FZero, percentage |-> FZero]

StorageClassBreakdown(bd) ==
    [i \in 1..Len(bd.storage_classes) |->
        [k |-> bd.storage_classes[i].k,
         v |-> ClassBreakdown(bd.storage_classes[i].v, bd.total_size, bd.object_count)]]

\* percentages relative to recent + old
AgeBreakdown(age) ==
    LET total_objects == age.recent + age.old
    IN  IF total_objects > 0
        THEN [recent |-> [count |-> age.recent,
                          percentage |-> Percentage(age.recent, total_objects)],
              old |-> [count |-> age.old,
                       percentage |-> Percentage(age.old, total_objects)]]
        ELSE [recent |-> [count |-> 0, percentage |-> FZero],
              old |-> [count |-> 0, percentage |-> FZero]]

\* the metrics of one complete record (an entry that Raises stands for the
\* ZeroDivisionError that ended the call)
compute_bucket_metrics(bd) ==
    [bucket_name |-> bd.bucket_name,
     region |-> bd.region,
     object_count |-> bd.object_count,
     total_size |-> bd.total_size,
     total_size_gb |-> FDivPow2(IntToF(bd.total_size), GiBExp),
     total_size_tb |-> FDivPow2(IntToF(bd.total_size), TiBExp),
     sampled |-> IF "sampled" \in DOMAIN bd THEN bd.sampled ELSE FALSE,
     sample_size |-> IF "sample_size" \in DOMAIN bd THEN bd.sample_size
                     ELSE bd.object_count,
     storage_classes |-> bd.storage_classes,
     file_extensions |-> bd.file_extensions,
     age_buckets |-> bd.age_buckets,
     inventory_date |-> bd.inventory_date,
     avg_object_size |-> AvgObjectSize(bd.total_size, bd.object_count),
     avg_object_size_kb |->
         FDivPow2(AvgObjectSize(bd.total_size, bd.object_count), KiBExp),
     storage_class_breakdown |-> StorageClassBreakdown(bd),
     age_breakdown |-> AgeBreakdown(bd.age_buckets)]

\* the exception _compute_bucket_metrics ends with on the record bd, or "none"
ComputeRaises(bd) ==
    IF ~Complete(bd) THEN "KeyError"
    ELSE LET m == compute_bucket_metrics(bd)
         IN  IF \/ Raises(m.avg_object_size)
                \/ \E i \in 1..Len(m.storage_class_breakdown) :
                      \/ Raises(m.storage_class_breakdown[i].v.size)
                      \/ Raises(m.storage_class_breakdown[i].v.percentage)
                \/ Raises(m.age_breakdown.recent.percentage)
                \/ Raises(m.age_breakdown.old.percentage)
             THEN "ZeroDivisionError"
             ELSE "none"

----------------------------------------------------------------------------
(* S3Aggregator.aggregate_buckets *)

\* mutant: only a failed bucket without objects is skipped
Errored_WhenEmpty(bd) == "error" \in DOMAIN bd /\ bd.object_count = 0

\* "error" in bucket_data
Errored(bd) == "error" \in DOMAIN bd

\* mutant: break instead of continue at a failed bucket
RECURSIVE AggregateBucketsFrom_Break(_, _, _)
AggregateBucketsFrom_Break(inv, i, acc) ==
    IF i > Len(inv) THEN [raised |-> "none", value |-> acc]
    ELSE IF Errored(inv[i].v) THEN [raised |-> "none", value |-> acc]
    ELSE IF ComputeRaises(inv[i].v) # "none"
         THEN [raised |-> ComputeRaises(inv[i].v), value |-> EmptyDict]
    ELSE AggregateBucketsFrom_Break(inv, i + 1,
             Put(acc, inv[i].k, compute_bucket_metrics(inv[i].v)))

\* mutant: a record that lacks a required key is skipped like a failed bucket
RECURSIVE AggregateBucketsFrom_SkipMalformed(_, _, _)
AggregateBucketsFrom_SkipMalformed(inv, i, acc) ==
    IF i > Len(inv) THEN [raised |-> "none", value |-> acc]
    ELSE IF Errored(inv[i].v) \/ ~Complete(inv[i].v)
         THEN AggregateBucketsFrom_SkipMalformed(inv, i + 1, acc)
    ELSE IF ComputeRaises(inv[i].v) # "none"
         THEN [raised |-> ComputeRaises(inv[i].v), value |-> EmptyDict]
    ELSE AggregateBucketsFrom_SkipMalformed(inv, i + 1,
             Put(acc, inv[i].k, compute_bucket_metrics(inv[i].v)))

\* the loop over inventory_data.items(), from entry i on, with the result so far;
\* an exception of _compute_bucket_metrics ends the call and discards the result
RECURSIVE AggregateBucketsFrom(_, _, _)
AggregateBucketsFrom(inv, i, acc) ==
    IF i > Len(inv) THEN [raised |-> "none", value |-> acc]
    ELSE IF Errored(inv[i].v) THEN AggregateBucketsFrom(inv, i + 1, acc)
    ELSE IF ComputeRaises(inv[i].v) # "none"
         THEN [raised |-> ComputeRaises(inv[i].v), value |-> EmptyDict]
    ELSE AggregateBucketsFrom(inv, i + 1,
             Put(acc, inv[i].k, compute_bucket_metrics(inv[i].v)))

aggregate_buckets(inv) == AggregateBucketsFrom(inv, 1, EmptyDict)

----------------------------------------------------------------------------
(* S3Aggregator.aggregate_account *)

NewAccount(bm) ==
    [bucket_count |-> Len(bm),
     total_objects |-> 0,
     total_size |-> 0,
     storage_classes |-> EmptyDict,
     file_extensions |-> EmptyDict,
     age_buckets |-> [recent |-> 0, old |-> 0],
     regions |-> EmptyDict,
     sampled_buckets |-> 0]

\* account_metrics["regions"][region] = account_metrics["regions"].get(region, 0) + 1
TrackRegion(regions, region) ==
    Put(regions, region, (IF HasKey(regions, region) THEN Get(regions, region) ELSE 0) + 1)

\* mutant: size_gb is taken from the size before the bucket was added
AddStorageClass_StaleGb(entry, count, m) ==
    IF m.object_count > 0
    THEN [count |-> entry.count + count,
          size |-> FAdd(entry.size, EstimatedSize(count, m.total_size, m.object_count)),
          size_gb |-> FDivPow2(entry.size, GiBExp)]
    ELSE [entry EXCEPT !.count = entry.count + count]

\* mutant: the estimate assigned, not added
AddStorageClass_Assign(entry, count, m) ==
    IF m.object_count > 0
    THEN LET size == EstimatedSize(count, m.total_size, m.object_count)
         IN  [count |-> entry.count + count,
              size |-> size,
              size_gb |-> FDivPow2(size, GiBExp)]
    ELSE [entry EXCEPT !.count = entry.count + count]

\* one pass of the storage class loop: the class's entry after the bucket m
\* with `count` objects of that class has been folded in
AddStorageClass(entry, count, m) ==
    IF m.object_count > 0
    THEN LET size == FAdd(entry.size, EstimatedSize(count, m.total_size, m.object_count))
         IN  [count |-> entry.count + count,
              size |-> size,
              size_gb |-> FDivPow2(size, GiBExp)]
    ELSE [entry EXCEPT !.count = entry.count + count]

NewClassEntry == [count |-> 0, size |-> FZero, size_gb |-> FZero]

RECURSIVE FoldStorageClasses(_, _, _)
FoldStorageClasses(acc, m, i) ==
    IF i > Len(m.storage_classes) THEN acc
    ELSE LET c == m.storage_classes[i].k
             entry == IF HasKey(acc, c) THEN Get(acc, c) ELSE NewClassEntry
         IN  FoldStorageClasses(
                 Put(acc, c, AddStorageClass(entry, m.storage_classes[i].v, m)),
                 m, i + 1)

\* mutant: the size assigned, not added
AddExtension_Assign(entry, ext_data) ==
    [count |-> entry.count + ext_data.count,
     size |-> ext_data.size,
     size_gb |-> FDivPow2(IntToF(ext_data.size), GiBExp)]

\* one pass of the file extension loop
AddExtension(entry, ext_data) ==
    [count |-> entry.count + ext_data.count,
     size |-> entry.size + ext_data.size,
     size_gb |-> FDivPow2(IntToF(entry.size + ext_data.size), GiBExp)]

NewExtEntry == [count |-> 0, size |-> 0, size_gb |-> FZero]

RECURSIVE FoldExtensions(_, _, _)
FoldExtensions(acc, m, i) ==
    IF i > Len(m.file_extensions) THEN acc
    ELSE LET x == m.file_extensions[i].k
             entry == IF HasKey(acc, x) THEN Get(acc, x) ELSE NewExtEntry
         IN  FoldExtensions(
                 Put(acc, x, AddExtension(entry, m.file_extensions[i].v)),
                 m, i + 1)

\* mutant: every bucket counted as sampled
FoldBucket_AlwaysSampled(acc, m) ==
    [acc EXCEPT
        !.total_objects = acc.total_objects + m.object_count,
        !.total_size = acc.total_size + m.total_size,
        !.regions = TrackRegion(acc.regions, m.region),
        !.sampled_buckets = acc.sampled_buckets + 1,
        !.storage_classes = FoldStorageClasses(acc.storage_classes, m, 1),
        !.file_extensions = FoldExtensions(acc.file_extensions, m, 1),
        !.age_buckets = [recent |-> acc.age_buckets.recent + m.age_buckets.recent,
                         old |-> acc.age_buckets.old + m.age_buckets.old]]

\* the body of the loop over bucket_metrics.items()
FoldBucket(acc, m) ==
    [acc EXCEPT
        !.total_objects = acc.total_objects + m.object_count,
        !.total_size = acc.total_size + m.total_size,
        !.regions = TrackRegion(acc.regions, m.region),
        !.sampled_buckets = acc.sampled_buckets + (IF m.sampled THEN 1 ELSE 0),
        !.storage_classes = FoldStorageClasses(acc.storage_classes, m, 1),
        !.file_extensions = FoldExtensions(acc.file_extensions, m, 1),
        !.age_buckets = [recent |-> acc.age_buckets.recent + m.age_buckets.recent,
                         old |-> acc.age_buckets.old + m.age_buckets.old]]

RECURSIVE FoldBuckets(_, _, _)
FoldBuckets(acc, bm, i) ==
    IF i > Len(bm) THEN acc
    ELSE FoldBuckets(FoldBucket(acc, bm[i].v), bm, i + 1)

\* the sequence s without its i-th element
RemoveAt(s, i) == [j \in 1..(Len(s) - 1) |-> IF j < i THEN s[j] ELSE s[j + 1]]

\* mutant: an ascending sort, reversed (the last of equal entries comes first)
RECURSIVE SortByCountDesc_Reversed(_)
SortByCountDesc_Reversed(items) ==
    IF items = <<>> THEN <<>>
    ELSE LET i == CHOOSE i \in 1..Len(items) :
                      /\ \A j \in 1..Len(items) : items[j].v.count <= items[i].v.count
                      /\ \A j \in (i + 1)..Len(items) : items[j].v.count < items[i].v.count
         IN  <<items[i]>> \o SortByCountDesc_Reversed(RemoveAt(items, i))

\* sorted(items, key=lambda x: x[1]["count"], reverse=True): a stable sort,
\* so the first of the entries with the largest count comes first
RECURSIVE SortByCountDesc(_)
SortByCountDesc(items) ==
    IF items = <<>> THEN <<>>
    ELSE LET i == CHOOSE i \in 1..Len(items) :
                      /\ \A j \in 1..Len(items) : items[j].v.count <= items[i].v.count
                      /\ \A j \in 1..(i - 1) : items[j].v.count < items[i].v.count
         IN  <<items[i]>> \o SortByCountDesc(RemoveAt(items, i))

\* mutant: the account average without its guard
AccountAvgObjectSize_Unguarded(acc) == IntDiv(acc.total_size, acc.total_objects)

\* avg_object_size of the account: total_size / total_objects, guarded
AccountAvgObjectSize(acc) ==
    IF acc.total_objects > 0 THEN IntDiv(acc.total_size, acc.total_objects) ELSE FZero

\* the derived metrics computed after the loop
Derive(acc) ==
    [k \in DOMAIN acc \cup {"avg_object_size", "avg_object_size_kb",
                            "total_size_gb", "total_size_tb"} |->
        CASE k = "avg_object_size" -> AccountAvgObjectSize(acc)
          [] k = "avg_object_size_kb" -> FDivPow2(AccountAvgObjectSize(acc), KiBExp)
          [] k = "total_size_gb" -> FDivPow2(IntToF(acc.total_size), GiBExp)
          [] k = "total_size_tb" -> FDivPow2(IntToF(acc.total_size), TiBExp)
          [] k = "file_extensions" -> SortByCountDesc(acc.file_extensions)
          [] OTHER -> acc[k]]

aggregate_account(bm) == Derive(FoldBuckets(NewAccount(bm), bm, 1))

\* the exception aggregate_account ends with on the mapping bm, or "none"
AccountRaises(bm) ==
    LET a == aggregate_account(bm)
    IN  IF \/ Raises(a.avg_object_size)
           \/ \E i \in 1..Len(a.storage_classes) : Raises(a.storage_classes[i].v.size)
        THEN "ZeroDivisionError"
        ELSE "none"

----------------------------------------------------------------------------
(* S3Aggregator.get_top_buckets and get_top_extensions *)

\* the Python type of the values of a metrics field
FieldKind(field) ==
    CASE field \in {"object_count", "total_size", "sample_size"} -> "int"
      [] field \in {"total_size_gb", "total_size_tb",
                    "avg_object_size", "avg_object_size_kb"} -> "float"
      [] field = "sampled" -> "bool"
      [] field \in {"bucket_name", "region", "inventory_date"} -> "str"
      [] OTHER -> "dict"

\* the region labels of the model in Python's string order (by code point)
RegionOrder == <<"unknown", "us-east-1", "us-west-2">>

StrLess(a, b) ==
    \E i, j \in 1..Len(RegionOrder) : RegionOrder[i] = a /\ RegionOrder[j] = b /\ i < j

\* x < y on non-negative floats
FLess(x, y) ==
    IF y.m = 0 THEN FALSE
    ELSE IF x.m = 0 THEN TRUE
    ELSE IF x.e - y.e > MantissaBits THEN FALSE
    ELSE IF y.e - x.e > MantissaBits THEN TRUE
    ELSE LET lo == IF x.e < y.e THEN x.e ELSE y.e
         IN  x.m * Pow2(x.e - lo) < y.m * Pow2(y.e - lo)

\* a < b as Python evaluates it on two values of one kind (dicts are not
\* ordered: the comparison raises TypeError, see TopBucketsRaises)
Less(kind, a, b) ==
    CASE kind = "int" -> a < b
      [] kind = "float" -> FLess(a, b)
      [] kind = "bool" -> ~a /\ b
      [] kind = "str" -> StrLess(a, b)
      [] OTHER -> FALSE

\* sorted(items, key=lambda x: x[1][sort_by], reverse=True): a stable sort, so
\* the first of the entries with the largest value comes first
RECURSIVE SortByFieldDesc(_, _)
SortByFieldDesc(items, field) ==
    IF items = <<>> THEN <<>>
    ELSE LET kind == FieldKind(field)
             i == CHOOSE i \in 1..Len(items) :
                      /\ \A j \in 1..Len(items) :
                            ~Less(kind, items[i].v[field], items[j].v[field])
                      /\ \A j \in 1..(i - 1) :
                            Less(kind, items[j].v[field], items[i].v[field])
         IN  <<items[i]>> \o SortByFieldDesc(RemoveAt(items, i), field)

\* s[:n]: the first n elements, and for a negative n all but the last -n
SliceTo(s, n) ==
    LET stop == IF n >= 0 THEN (IF n < Len(s) THEN n ELSE Len(s))
                ELSE (IF Len(s) + n > 0 THEN Len(s) + n ELSE 0)
    IN  SubSeq(s, 1, stop)

\* {label: name, **data}: a key of data overrides the literal key before it
Annotate(label, name, data) ==
    [f \in DOMAIN data \cup {label} |-> IF f \in DOMAIN data THEN data[f] ELSE name]

\* the exception get_top_buckets ends with, or "none": the key function runs on
\* every item before any comparison is made
TopBucketsRaises(bm, field) ==
    IF \E i \in 1..Len(bm) : field \notin DOMAIN bm[i].v THEN "KeyError"
    ELSE IF FieldKind(field) = "dict" /\ Len(bm) >= 2 THEN "TypeError"
    ELSE "none"

get_top_buckets(bm, n, field) ==
    LET sorted_buckets == SliceTo(SortByFieldDesc(bm, field), n)
    IN  [i \in 1..Len(sorted_buckets) |->
            Annotate("bucket_name", sorted_buckets[i].k, sorted_buckets[i].v)]

\* mutant: extensions of equal count are listed in reverse order
get_top_extensions_Reversed(am, n) ==
    LET sorted_extensions == SliceTo(SortByCountDesc_Reversed(am.file_extensions), n)
    IN  [i \in 1..Len(sorted_extensions) |->
            Annotate("extension", sorted_extensions[i].k, sorted_extensions[i].v)]

get_top_extensions(am, n) ==
    LET sorted_extensions == SliceTo(SortByCountDesc(am.file_extensions), n)
    IN  [i \in 1..Len(sorted_extensions) |->
            Annotate("extension", sorted_extensions[i].k, sorted_extensions[i].v)]

----------------------------------------------------------------------------
(* What the methods of S3Aggregator write *)

\* Every assignment of aggregate_buckets and _compute_bucket_metrics goes to a
\* dict the call has allocated itself (bucket_metrics, metrics,
\* storage_class_breakdown); the histograms of the record are stored in the
\* metrics by reference and not written to.
\* mutant: the failed buckets are deleted from the mapping handed in
ArgumentAfter_aggregate_buckets_Filtered(inv) ==
    SelectSeq(inv, LAMBDA entry : ~Errored(entry.v))

\* the mapping handed to aggregate_buckets, after the call
ArgumentAfter_aggregate_buckets(inv) == inv

\* aggregate_account writes to account_metrics and to the entries it creates
\* in its storage_classes, file_extensions and regions
ArgumentAfter_aggregate_account(bm) == bm

\* sorted() builds a new list and {k: v, **d} a new dict
ArgumentAfter_get_top_buckets(bm) == bm

ArgumentAfter_get_top_extensions(am) == am

\* no method of the class assigns to self
AttributesAfterCall(self) == self

----------------------------------------------------------------------------
(* S3Inventory.write_inventory and load_inventory *)

\* A line of the JSONL file is modelled by the JSON document it spells: a
\* string, a number written in decimal digits, true, false, an array, or an
\* object with its members in the order of the text.  A blank line spells none.
RECURSIVE Digits(_)
Digits(n) == IF n < 10 THEN <<n>> ELSE Append(Digits(n \div 10), n % 10)

RECURSIVE FromDigits(_)
FromDigits(ds) ==
    IF Len(ds) = 1 THEN ds[1]
    ELSE 10 * FromDigits(SubSeq(ds, 1, Len(ds) - 1)) + ds[Len(ds)]

JString(str) == [t |-> "string", s |-> str]

JNumber(n) == [t |-> "number", digits |-> Digits(n)]

JBool(b) == [t |-> IF b THEN "true" ELSE "false"]

JArray(items) == [t |-> "array", items |-> items]

JObject(members) == [t |-> "object", members |-> members]

Member(name, value) == [name |-> name, value |-> value]

BlankLine == [t |-> "blank"]

\* the keys of the records, in the order _inventory_bucket and
\* collect_inventory write them
FieldOrder ==
    <<"bucket_name", "error", "region", "object_count", "total_size", "sampled",
      "sample_size", "storage_classes", "file_extensions", "age_buckets",
      "objects", "inventory_date", "count", "size", "recent", "old">>

\* the Python type of the value of a key of a record
JsonKind(field) ==
    CASE field \in {"object_count", "total_size", "sample_size",
                    "count", "size", "recent", "old"} -> "int"
      [] field = "sampled" -> "bool"
      [] field = "storage_classes" -> "dict of int"
      [] field = "file_extensions" -> "dict of dict"
      [] field = "age_buckets" -> "dict"
      [] field = "objects" -> "list"
      [] OTHER -> "str"

FieldsOf(r) == SelectSeq(FieldOrder, LAMBDA f : f \in DOMAIN r)

\* json.dumps(value)
RECURSIVE dumps(_, _)
dumps(kind, v) ==
    CASE kind = "str" -> JString(v)
      [] kind = "int" -> JNumber(v)
      [] kind = "bool" -> JBool(v)
      [] kind = "list" -> JArray([i \in 1..Len(v) |-> dumps("dict", v[i])])
      [] kind = "dict of int" ->
            JObject([i \in 1..Len(v) |-> Member(v[i].k, dumps("int", v[i].v))])
      [] kind = "dict of dict" ->
            JObject([i \in 1..Len(v) |-> Member(v[i].k, dumps("dict", v[i].v))])
      [] OTHER ->
            LET fs == FieldsOf(v)
            IN  JObject([i \in 1..Len(fs) |->
                            Member(fs[i], dumps(JsonKind(fs[i]), v[fs[i]]))])

\* the value of the last member of that name: a repeated name overwrites
LastMember(members, name) ==
    members[CHOOSE i \in 1..Len(members) :
                /\ members[i].name = name
                /\ \A j \in (i + 1)..Len(members) : members[j].name # name].value

\* json.loads(text); kind tells which of the model's two forms of a dict the
\* object is read into
RECURSIVE loads(_, _)
RECURSIVE LoadsItems(_, _, _, _)
loads(kind, j) ==
    CASE j.t = "string" -> j.s
      [] j.t = "number" -> FromDigits(j.digits)
      [] j.t = "true" -> TRUE
      [] j.t = "false" -> FALSE
      [] j.t = "array" -> [i \in 1..Len(j.items) |-> loads("dict", j.items[i])]
      [] OTHER ->
            IF kind = "dict of int" THEN LoadsItems("int", j.members, 1, EmptyDict)
            ELSE IF kind = "dict of dict" THEN LoadsItems("dict", j.members, 1, EmptyDict)
            ELSE [f \in {j.members[i].name : i \in 1..Len(j.members)} |->
                     loads(JsonKind(f), LastMember(j.members, f))]

LoadsItems(kind, members, i, acc) ==
    IF i > Len(members) THEN acc
    ELSE LoadsItems(kind, members, i + 1,
                    Put(acc, members[i].name, loads(kind, members[i].value)))

\* mutant: the file opened for appending
write_inventory_Append(inv, file) ==
    file \o [i \in 1..Len(inv) |-> dumps("dict", inv[i].v)]

\* the lines of output_file after write_inventory: open(output_file, 'w')
\* empties the file, then one line per entry is written
write_inventory(inv, file) ==
    [i \in 1..Len(inv) |-> dumps("dict", inv[i].v)]

\* mutant: the first record of a name is kept
RECURSIVE LoadFrom_FirstWins(_, _, _)
LoadFrom_FirstWins(lines, i, acc) ==
    IF i > Len(lines) THEN [raised |-> "none", value |-> acc]
    ELSE IF lines[i].t = "blank"
         THEN [raised |-> "JSONDecodeError", value |-> EmptyDict]
    ELSE LET record == loads("dict", lines[i])
             bucket_name == IF "bucket_name" \in DOMAIN record
                            THEN record.bucket_name ELSE "unknown"
         IN  LoadFrom_FirstWins(lines, i + 1,
                 IF HasKey(acc, bucket_name) THEN acc ELSE Put(acc, bucket_name, record))

\* the loop over the lines of the file, from line i on: json.loads raises on a
\* blank line, and a record is stored under bucket_data.get('bucket_name', 'unknown')
RECURSIVE LoadFrom(_, _, _)
LoadFrom(lines, i, acc) ==
    IF i > Len(lines) THEN [raised |-> "none", value |-> acc]
    ELSE IF lines[i].t = "blank"
         THEN [raised |-> "JSONDecodeError", value |-> EmptyDict]
    ELSE LET record == loads("dict", lines[i])
             bucket_name == IF "bucket_name" \in DOMAIN record
                            THEN record.bucket_name ELSE "unknown"
         IN  LoadFrom(lines, i + 1, Put(acc, bucket_name, record))

load_inventory(lines) == LoadFrom(lines, 1, EmptyDict)

----------------------------------------------------------------------------
(* S3Inventory._get_file_extension *)

\* An object key is a sequence of characters; a label is a string.
RECURSIVE Join(_)
Join(chars) == IF chars = <<>> THEN "" ELSE chars[1] \o Join(Tail(chars))

\* key.endswith(c)
EndsWith(chars, c) == Len(chars) > 0 /\ chars[Len(chars)] = c

\* str.lower() on the characters of the model
LowerChar(c) == IF c = "B" THEN "b" ELSE IF c = "A" THEN "a" ELSE c

Lower(chars) == [i \in 1..Len(chars) |-> LowerChar(chars[i])]

\* name.rfind(c), counted from 1; 0 if c is not in the name
RFind(chars, c) ==
    IF \E i \in 1..Len(chars) : chars[i] = c
    THEN CHOOSE i \in 1..Len(chars) :
             chars[i] = c /\ \A j \in (i + 1)..Len(chars) : chars[j] # c
    ELSE 0

\* key.split('/')
RECURSIVE Split(_, _)
Split(chars, sep) ==
    IF \A i \in 1..Len(chars) : chars[i] # sep THEN <<chars>>
    ELSE LET i == RFind(chars, sep)
         IN  Append(Split(SubSeq(chars, 1, i - 1), sep), SubSeq(chars, i + 1, Len(chars)))

\* Path(key).name: pathlib drops the empty and the "." components of the path;
\* the name is the last of the others, or empty if there is none
PathName(chars) ==
    LET parts == SelectSeq(Split(chars, "/"), LAMBDA x : x # <<>> /\ x # <<".">>)
    IN  IF parts = <<>> THEN <<>> ELSE parts[Len(parts)]

\* Path(key).suffix: from the last '.' of the name on, unless that '.' is the
\* first or the last character of the name
PathSuffix(name) ==
    LET i == RFind(name, ".")
    IN  IF 1 < i /\ i < Len(name) THEN SubSeq(name, i, Len(name)) ELSE <<>>

get_file_extension(chars) ==
    IF EndsWith(chars, "/") THEN "directory"
    ELSE LET ext == Lower(PathSuffix(PathName(chars)))
         IN  IF ext # <<>> THEN Join(Tail(ext)) ELSE "no-extension"

----------------------------------------------------------------------------
(* Inputs *)

KV(k, v) == [k |-> k, v |-> v]

\* a non-errored record as S3Inventory._inventory_bucket lays it out
Record(region, object_count, total_size, sampled, storage_classes, file_extensions, recent, old) ==
    [bucket_name |-> "bucket",
     region |-> region,
     object_count |-> object_count,
     total_size |-> total_size,
     sampled |-> sampled,
     sample_size |-> object_count,
     storage_classes |-> storage_classes,
     file_extensions |-> file_extensions,
     age_buckets |-> [recent |-> recent, old |-> old],
     inventory_date |-> "2023-01-01T00:00:00"]

\* the record r without the key f, and with the key f set to x
Without(r, f) == [k \in DOMAIN r \ {f} |-> r[k]]

With(r, f, x) == [k \in DOMAIN r \cup {f} |-> IF k = f THEN x ELSE r[k]]

Ext(count, size) == [count |-> count, size |-> size]

\* the record _inventory_bucket returns on AccessDenied
AccessDeniedRecord ==
    [bucket_name |-> "bucket", error |-> "Access denied",
     object_count |-> 0, total_size |-> 0]

\* Records of the inventories the aggregation pipeline is run on: consistent and
\* inconsistent histograms, empty buckets, failed buckets (with and without
\* numbers in them) and a record that lacks a required field.
SampleRecords ==
    { Record("us-east-1", 3, 1, FALSE,
             <<KV("STANDARD", 1), KV("GLACIER", 2)>>,
             <<KV("txt", Ext(2, 1)), KV("jpg", Ext(1, 0))>>, 2, 1),
      Record("us-west-2", 3, 2, TRUE,
             <<KV("GLACIER", 1), KV("STANDARD", 1)>>,
             <<KV("jpg", Ext(2, 2))>>, 1, 1),
      Record("us-east-1", 1, 1, FALSE,
             <<KV("STANDARD", 1)>>,
             <<KV("pdf", Ext(1, 1))>>, 0, 1),
      Record("us-west-2", 1, 2, TRUE,
             <<KV("GLACIER", 1)>>,
             <<KV("pdf", Ext(1, 2)), KV("txt", Ext(1, 0))>>, 1, 0),
      Record("us-east-1", 0, 0, FALSE,
             <<KV("STANDARD", 2)>>,
             <<KV("txt", Ext(1, 1))>>, 1, 0),
      Record("us-east-1", 0, 0, FALSE, <<>>, <<>>, 0, 0),
      With(Record("us-west-2", 2, 2, TRUE,
                  <<KV("STANDARD", 2)>>,
                  <<KV("txt", Ext(2, 2))>>, 1, 1), "error", "timeout"),
      AccessDeniedRecord,
      Without(Record("us-east-1", 1, 1, FALSE,
                     <<KV("STANDARD", 1)>>,
                     <<KV("txt", Ext(1, 1))>>, 1, 0), "region") }

\* keys of the inventory mapping, in insertion order
BucketNames == <<"bucket-1", "bucket-2", "bucket-3", "bucket-4", "bucket-5">>

\* Records handed to _compute_bucket_metrics on their own
ClassLabels == {"STANDARD", "GLACIER"}

Counts == 0..MaxCount

ClassHistograms ==
    {<<>>}
    \cup {<<KV(c, n)>> : c \in ClassLabels, n \in Counts}
    \cup {<<KV(c[1], n[1]), KV(c[2], n[2])>> :
             c \in {<<"STANDARD", "GLACIER">>, <<"GLACIER", "STANDARD">>},
             n \in Counts \X Counts}

BucketRecords ==
    { Without(Without(
          Record("us-east-1", oc, ts, FALSE, sc, <<KV("txt", Ext(oc, ts))>>,
                 age[1], age[2]), "sampled"), "sample_size") :
          oc \in Counts, ts \in 0..MaxSize, sc \in ClassHistograms,
          age \in Counts \X Counts }

\* the same, one required key short
IncompleteRecords ==
    { Without(Record("us-east-1", 1, 1, FALSE, <<KV("STANDARD", 1)>>,
                     <<KV("txt", Ext(1, 1))>>, 1, 0), f) : f \in RequiredFields }

----------------------------------------------------------------------------
(* The aggregation pipeline: load, aggregate_buckets, aggregate_account *)

Unset == [unset |-> TRUE]

\* the variables of the parts of the program a specification does not run
NoRanking == top_n = 0 /\ sort_by = "" /\ top = Unset

NoFile == inventory_file = <<>> /\ loaded = Unset

NoKey == key = <<>> /\ extension = ""

NoScan == listing = <<>> /\ scan = Unset

NoFutures == futures = <<>>

\* S3Aggregator(): the class has no __init__ and no class attributes
NoAttributes == EmptyDict

Init ==
    /\ inventory_data = EmptyDict
    /\ bucket_metrics = EmptyDict
    /\ account_metrics = Unset
    /\ raised = "none"
    /\ pc = "load"
    /\ bucket_data = Unset
    /\ metrics = Unset
    /\ NoRanking /\ NoFile /\ NoKey /\ NoScan
    /\ aggregator = NoAttributes
    /\ NoFutures

\* one more record enters the inventory mapping under its bucket's name
AddRecord ==
    /\ pc = "load"
    /\ Len(inventory_data) < MaxBuckets
    /\ Len(inventory_data) < Len(BucketNames)
    /\ \E r \in SampleRecords :
          LET name == BucketNames[Len(inventory_data) + 1]
          IN  inventory_data' = Put(inventory_data, name, With(r, "bucket_name", name))
    /\ UNCHANGED <<bucket_metrics, account_metrics, raised, pc, bucket_data, metrics>>
    /\ UNCHANGED <<rankVars, fileVars, extVars, scanVars, aggregator, futures>>

\* bucket_metrics = aggregator.aggregate_buckets(inventory_data)
AggregateBuckets ==
    /\ pc = "load"
    /\ LET res == aggregate_buckets(inventory_data)
       IN  /\ raised' = res.raised
           /\ bucket_metrics' = res.value
           /\ pc' = IF res.raised = "none" THEN "buckets" ELSE "failed_buckets"
    /\ UNCHANGED <<inventory_data, account_metrics, bucket_data, metrics>>
    /\ UNCHANGED <<rankVars, fileVars, extVars, scanVars, aggregator, futures>>

\* account_metrics = aggregator.aggregate_account(bucket_metrics)
AggregateAccount ==
    /\ pc = "buckets"
    /\ raised' = AccountRaises(bucket_metrics)
    /\ IF AccountRaises(bucket_metrics) = "none"
       THEN /\ account_metrics' = aggregate_account(bucket_metrics)
            /\ pc' = "account"
       ELSE /\ account_metrics' = account_metrics
            /\ pc' = "failed_account"
    /\ UNCHANGED <<inventory_data, bucket_metrics, bucket_data, metrics>>
    /\ UNCHANGED <<rankVars, fileVars, extVars, scanVars, aggregator, futures>>

Next == AddRecord \/ AggregateBuckets \/ AggregateAccount

Spec == Init /\ [][Next]_vars

----------------------------------------------------------------------------
(* _compute_bucket_metrics applied to one record *)

InitBucket ==
    /\ inventory_data = EmptyDict
    /\ bucket_metrics = EmptyDict
    /\ account_metrics = Unset
    /\ raised = "none"
    /\ pc = "record"
    /\ bucket_data \in BucketRecords \cup IncompleteRecords
    /\ metrics = Unset
    /\ NoRanking /\ NoFile /\ NoKey /\ NoScan
    /\ aggregator = NoAttributes
    /\ NoFutures

\* metrics = self._compute_bucket_metrics(bucket_data)
ComputeBucketMetrics ==
    /\ pc = "record"
    /\ raised' = ComputeRaises(bucket_data)
    /\ IF ComputeRaises(bucket_data) = "none"
       THEN /\ metrics' = compute_bucket_metrics(bucket_data)
            /\ pc' = "metrics"
       ELSE /\ metrics' = metrics
            /\ pc' = "failed"
    /\ UNCHANGED <<inventory_data, bucket_metrics, account_metrics, bucket_data>>
    /\ UNCHANGED <<rankVars, fileVars, extVars, scanVars, aggregator, futures>>

NextBucket == ComputeBucketMetrics

SpecBucket == InitBucket /\ [][NextBucket]_vars

----------------------------------------------------------------------------
(* aggregate_buckets applied to inventories with malformed records *)

\* a good record, a failed one, and the records that lack one required key
MalformedSamples ==
    { Record("us-east-1", 1, 1, FALSE, <<KV("STANDARD", 1)>>,
             <<KV("txt", Ext(1, 1))>>, 1, 0),
      AccessDeniedRecord }
    \cup IncompleteRecords

\* one more record enters the inventory mapping; only a record that has a
\* bucket_name is keyed by it
AddAnyRecord ==
    /\ pc = "load"
    /\ Len(inventory_data) < MaxBuckets
    /\ Len(inventory_data) < Len(BucketNames)
    /\ \E r \in MalformedSamples :
          LET name == BucketNames[Len(inventory_data) + 1]
          IN  inventory_data' =
                  Put(inventory_data, name,
                      IF "bucket_name" \in DOMAIN r THEN With(r, "bucket_name", name)
                      ELSE r)
    /\ UNCHANGED <<bucket_metrics, account_metrics, raised, pc, bucket_data, metrics>>
    /\ UNCHANGED <<rankVars, fileVars, extVars, scanVars, aggregator, futures>>

NextMalformed == AddAnyRecord \/ AggregateBuckets

SpecMalformed == Init /\ [][NextMalformed]_vars

----------------------------------------------------------------------------
(* The ranking helpers applied to metrics mappings *)

\* a metrics object written by hand, as the tests of the ranking helpers do
HandmadeMetrics == [total_size |-> 2, object_count |-> 2]

\* records whose metrics tie on some fields and differ on others
RankRecords ==
    { Record("us-east-1", 3, 1, FALSE, <<KV("STANDARD", 3)>>,
             <<KV("txt", Ext(3, 1))>>, 2, 1),
      Record("us-west-2", 3, 2, TRUE, <<KV("GLACIER", 3)>>,
             <<KV("jpg", Ext(3, 2))>>, 1, 2),
      Record("us-east-1", 1, 2, FALSE, <<KV("STANDARD", 1)>>,
             <<KV("txt", Ext(1, 2))>>, 0, 1) }

\* the metrics objects that can be stored under the key `name`: metrics of a
\* record of that name, metrics of a record that names another bucket, and
\* a handmade object
MetricsChoices(name) ==
    {compute_bucket_metrics(With(r, "bucket_name", name)) : r \in RankRecords}
    \cup {compute_bucket_metrics(With(r, "bucket_name", "bucket-0")) :
             r \in {Record("us-west-2", 1, 1, FALSE, <<KV("STANDARD", 1)>>,
                           <<KV("pdf", Ext(1, 1))>>, 1, 0)}}
    \cup {HandmadeMetrics}

\* top_n is an int: nothing keeps a caller from passing a negative one
TopNs == (0 - 2)..(MaxBuckets + 1)

SortFields ==
    {"total_size", "object_count", "avg_object_size", "sampled", "region",
     "storage_classes", "no_such_field"}

ExtLabels == {"txt", "jpg", "pdf"}

InitTop ==
    /\ inventory_data = EmptyDict
    /\ bucket_metrics = EmptyDict
    /\ account_metrics = [file_extensions |-> EmptyDict]
    /\ raised = "none"
    /\ pc \in {"rank_buckets", "rank_extensions"}
    /\ bucket_data = Unset
    /\ metrics = Unset
    /\ NoRanking /\ NoFile /\ NoKey /\ NoScan
    /\ aggregator = NoAttributes
    /\ NoFutures

\* one more bucket's metrics enter the mapping
AddMetrics ==
    /\ pc = "rank_buckets"
    /\ Len(bucket_metrics) < MaxBuckets
    /\ Len(bucket_metrics) < Len(BucketNames)
    /\ LET name == BucketNames[Len(bucket_metrics) + 1]
       IN  \E m \in MetricsChoices(name) :
              bucket_metrics' = Put(bucket_metrics, name, m)
    /\ UNCHANGED <<inventory_data, account_metrics, raised, pc, bucket_data, metrics>>
    /\ UNCHANGED <<rankVars, fileVars, extVars, scanVars, aggregator, futures>>

\* one more extension enters the account's file_extensions
AddAccountExtension ==
    /\ pc = "rank_extensions"
    /\ \E x \in ExtLabels \ KeySet(account_metrics.file_extensions), c \in Counts :
          account_metrics' =
              [file_extensions |-> Put(account_metrics.file_extensions, x, Ext(c, c))]
    /\ UNCHANGED <<inventory_data, bucket_metrics, raised, pc, bucket_data, metrics>>
    /\ UNCHANGED <<rankVars, fileVars, extVars, scanVars, aggregator, futures>>

\* top = aggregator.get_top_buckets(bucket_metrics, top_n, sort_by)
GetTopBuckets ==
    /\ pc \in {"rank_buckets", "ranked_buckets"}
    /\ \E n \in TopNs, f \in SortFields :
          /\ top_n' = n
          /\ sort_by' = f
          /\ raised' = TopBucketsRaises(bucket_metrics, f)
          /\ top' = IF TopBucketsRaises(bucket_metrics, f) = "none"
                    THEN get_top_buckets(bucket_metrics, n, f)
                    ELSE Unset
    /\ pc' = "ranked_buckets"
    /\ UNCHANGED <<aggVars, fileVars, extVars, scanVars, aggregator, futures>>

\* top = aggregator.get_top_extensions(account_metrics, top_n)
GetTopExtensions ==
    /\ pc \in {"rank_extensions", "ranked_extensions"}
    /\ \E n \in TopNs :
          /\ top_n' = n
          /\ top' = get_top_extensions(account_metrics, n)
    /\ raised' = "none"
    /\ pc' = "ranked_extensions"
    /\ UNCHANGED <<aggVars, sort_by, fileVars, extVars, scanVars, aggregator, futures>>

NextTop == AddMetrics \/ AddAccountExtension \/ GetTopBuckets \/ GetTopExtensions

SpecTop == InitTop /\ [][NextTop]_vars

----------------------------------------------------------------------------
(* Any sequence of calls on one aggregator *)

CallRecords ==
    { Record("us-east-1", 3, 1, FALSE, <<KV("STANDARD", 3)>>,
             <<KV("txt", Ext(2, 1)), KV("jpg", Ext(1, 0))>>, 2, 1),
      Record("us-west-2", 1, 2, TRUE, <<KV("GLACIER", 1)>>,
             <<KV("jpg", Ext(1, 2))>>, 0, 1),
      AccessDeniedRecord }

CallSortFields == {"total_size", "avg_object_size", "no_such_field"}

CallTopNs == {0 - 1, 1, MaxBuckets}

Called ==
    pc \in {"aggregate_buckets", "aggregate_account",
            "get_top_buckets", "get_top_extensions"}

InitCalls ==
    /\ inventory_data = EmptyDict
    /\ bucket_metrics = EmptyDict
    /\ account_metrics = Unset
    /\ raised = "none"
    /\ pc = "load"
    /\ bucket_data = Unset
    /\ metrics = Unset
    /\ NoRanking /\ NoFile /\ NoKey /\ NoScan
    /\ aggregator = NoAttributes
    /\ NoFutures

\* one more record enters the inventory mapping under its bucket's name
AddCallRecord ==
    /\ pc = "load"
    /\ Len(inventory_data) < MaxBuckets
    /\ Len(inventory_data) < Len(BucketNames)
    /\ \E r \in CallRecords :
          LET name == BucketNames[Len(inventory_data) + 1]
          IN  inventory_data' = Put(inventory_data, name, With(r, "bucket_name", name))
    /\ UNCHANGED <<bucket_metrics, account_metrics, raised, pc, bucket_data, metrics>>
    /\ UNCHANGED <<rankVars, fileVars, extVars, scanVars, aggregator, futures>>

\* bucket_metrics = aggregator.aggregate_buckets(inventory_data)
CallAggregateBuckets ==
    /\ pc = "load" \/ Called
    /\ LET res == aggregate_buckets(inventory_data)
       IN  /\ raised' = res.raised
           /\ bucket_metrics' = IF res.raised = "none" THEN res.value ELSE bucket_metrics
    /\ inventory_data' = ArgumentAfter_aggregate_buckets(inventory_data)
    /\ aggregator' = AttributesAfterCall(aggregator)
    /\ UNCHANGED futures
    /\ pc' = "aggregate_buckets"
    /\ UNCHANGED <<account_metrics, bucket_data, metrics>>
    /\ UNCHANGED <<rankVars, fileVars, extVars, scanVars>>

\* account_metrics = aggregator.aggregate_account(bucket_metrics)
CallAggregateAccount ==
    /\ Called
    /\ raised' = AccountRaises(bucket_metrics)
    /\ account_metrics' = IF AccountRaises(bucket_metrics) = "none"
                          THEN aggregate_account(bucket_metrics)
                          ELSE account_metrics
    /\ bucket_metrics' = ArgumentAfter_aggregate_account(bucket_metrics)
    /\ aggregator' = AttributesAfterCall(aggregator)
    /\ UNCHANGED futures
    /\ pc' = "aggregate_account"
    /\ UNCHANGED <<inventory_data, bucket_data, metrics>>
    /\ UNCHANGED <<rankVars, fileVars, extVars, scanVars>>

\* top = aggregator.get_top_buckets(bucket_metrics, top_n, sort_by)
CallGetTopBuckets ==
    /\ Called
    /\ \E n \in CallTopNs, f \in CallSortFields :
          /\ top_n' = n
          /\ sort_by' = f
          /\ raised' = TopBucketsRaises(bucket_metrics, f)
          /\ top' = IF TopBucketsRaises(bucket_metrics, f) = "none"
                    THEN get_top_buckets(bucket_metrics, n, f)
                    ELSE top
    /\ bucket_metrics' = ArgumentAfter_get_top_buckets(bucket_metrics)
    /\ aggregator' = AttributesAfterCall(aggregator)
    /\ UNCHANGED futures
    /\ pc' = "get_top_buckets"
    /\ UNCHANGED <<inventory_data, account_metrics, bucket_data, metrics>>
    /\ UNCHANGED <<fileVars, extVars, scanVars>>

\* top = aggregator.get_top_extensions(account_metrics, top_n)
CallGetTopExtensions ==
    /\ Called
    /\ account_metrics # Unset
    /\ \E n \in CallTopNs :
          /\ top_n' = n
          /\ top' = get_top_extensions(account_metrics, n)
    /\ raised' = "none"
    /\ account_metrics' = ArgumentAfter_get_top_extensions(account_metrics)
    /\ aggregator' = AttributesAfterCall(aggregator)
    /\ UNCHANGED futures
    /\ pc' = "get_top_extensions"
    /\ UNCHANGED <<inventory_data, bucket_metrics, bucket_data, metrics>>
    /\ UNCHANGED <<sort_by, fileVars, extVars, scanVars>>

NextCalls ==
    \/ AddCallRecord
    \/ CallAggregateBuckets
    \/ CallAggregateAccount
    \/ CallGetTopBuckets
    \/ CallGetTopExtensions

SpecCalls == InitCalls /\ [][NextCalls]_vars

----------------------------------------------------------------------------
(* Inventory files: write_inventory and load_inventory *)

MaxLines == 3         \* lines of an inventory file written by hand

\* a record with numbers of more than one digit
LargeRecord ==
    Record("us-east-1", 120, 1024, TRUE,
           <<KV("STANDARD", 100), KV("GLACIER", 20)>>,
           <<KV("txt", Ext(110, 1000)), KV("jpg", Ext(10, 24))>>, 70, 50)

SmallRecord ==
    Record("us-west-2", 1, 2, FALSE, <<KV("GLACIER", 1)>>,
           <<KV("pdf", Ext(1, 2))>>, 0, 1)

\* the record collect_inventory stores for a bucket whose inventory failed
FailedRecord == With(AccessDeniedRecord, "objects", <<>>)

\* the records that can be stored under the key `name`: records of that name,
\* a record that names another bucket and a record without a bucket_name
FileRecords(name) ==
    { With(LargeRecord, "bucket_name", name),
      With(FailedRecord, "bucket_name", name),
      With(SmallRecord, "bucket_name", "bucket-0"),
      Without(SmallRecord, "bucket_name") }

\* lines of a file: records of which several share a name, records without a
\* name, and a blank line
StreamLines ==
    { dumps("dict", r) :
        r \in { With(LargeRecord, "bucket_name", "bucket-1"),
                With(SmallRecord, "bucket_name", "bucket-1"),
                With(SmallRecord, "bucket_name", "bucket-2"),
                With(FailedRecord, "bucket_name", "bucket-2"),
                Without(SmallRecord, "bucket_name"),
                Without(FailedRecord, "bucket_name") } }
    \cup {BlankLine}

InitFile ==
    /\ inventory_data = EmptyDict
    /\ bucket_metrics = EmptyDict
    /\ account_metrics = Unset
    /\ raised = "none"
    /\ pc \in {"mapping", "stream"}
    /\ bucket_data = Unset
    /\ metrics = Unset
    /\ top_n = 0 /\ sort_by = "" /\ top = Unset
    /\ inventory_file \in {<<>>, <<dumps("dict", With(SmallRecord, "bucket_name", "bucket-5"))>>}
    /\ loaded = Unset
    /\ NoKey /\ NoScan
    /\ aggregator = NoAttributes
    /\ NoFutures

\* one more record enters the inventory mapping
AddFileRecord ==
    /\ pc = "mapping"
    /\ Len(inventory_data) < MaxBuckets
    /\ Len(inventory_data) < Len(BucketNames)
    /\ LET name == BucketNames[Len(inventory_data) + 1]
       IN  \E r \in FileRecords(name) : inventory_data' = Put(inventory_data, name, r)
    /\ UNCHANGED <<bucket_metrics, account_metrics, raised, pc, bucket_data, metrics>>
    /\ UNCHANGED <<rankVars, fileVars, extVars, scanVars, aggregator, futures>>

\* one more line is written to the file by hand
AppendLine ==
    /\ pc = "stream"
    /\ Len(inventory_file) < MaxLines
    /\ \E line \in StreamLines : inventory_file' = Append(inventory_file, line)
    /\ UNCHANGED <<aggVars, raised, pc, rankVars, loaded, extVars, scanVars, aggregator, futures>>

\* inventory.write_inventory(inventory_data, output_file)
WriteInventory ==
    /\ pc = "mapping"
    /\ inventory_file' = write_inventory(inventory_data, inventory_file)
    /\ pc' = "written"
    /\ UNCHANGED <<aggVars, raised, rankVars, loaded, extVars, scanVars, aggregator, futures>>

\* loaded = inventory.load_inventory(inventory_file)
LoadInventory ==
    /\ pc \in {"written", "stream"}
    /\ LET res == load_inventory(inventory_file)
       IN  /\ raised' = res.raised
           /\ loaded' = IF res.raised = "none" THEN res.value ELSE loaded
    /\ pc' = IF pc = "written" THEN "read_back" ELSE "read"
    /\ UNCHANGED <<aggVars, rankVars, inventory_file, extVars, scanVars, aggregator, futures>>

NextFile == AddFileRecord \/ AppendLine \/ WriteInventory \/ LoadInventory

SpecFile == InitFile /\ [][NextFile]_vars

----------------------------------------------------------------------------
(* _get_file_extension applied to one key *)

MaxKeyLen == 5        \* characters of an object key

KeyChars == {"a", "B", ".", "/"}

RECURSIVE KeysOfLen(_)
KeysOfLen(n) ==
    IF n = 0 THEN {<<>>}
    ELSE {Append(k, c) : k \in KeysOfLen(n - 1), c \in KeyChars}

\* S3 object keys have at least one character
Keys == UNION {KeysOfLen(n) : n \in 1..MaxKeyLen}

InitExt ==
    /\ inventory_data = EmptyDict
    /\ bucket_metrics = EmptyDict
    /\ account_metrics = Unset
    /\ raised = "none"
    /\ pc = "key"
    /\ bucket_data = Unset
    /\ metrics = Unset
    /\ NoRanking /\ NoFile /\ NoScan
    /\ key \in Keys
    /\ extension = ""
    /\ aggregator = NoAttributes
    /\ NoFutures

\* extension = self._get_file_extension(key)
GetFileExtension ==
    /\ pc = "key"
    /\ extension' = get_file_extension(key)
    /\ pc' = "extension"
    /\ UNCHANGED <<aggVars, raised, rankVars, fileVars, key, scanVars, aggregator, futures>>

NextExt == GetFileExtension

SpecExt == InitExt /\ [][NextExt]_vars

----------------------------------------------------------------------------
(* S3Inventory._inventory_bucket on one bucket *)

MaxObjects == 2       \* objects of the listed bucket

\* a datetime: wall clock in hours, and the UTC offset if it has a tzinfo
Aware(t, utcoffset) == [t |-> t, aware |-> TRUE, utcoffset |-> utcoffset]

Naive(t) == [t |-> t, aware |-> FALSE]

\* replace(tzinfo=timezone.utc) on a naive datetime, astimezone(timezone.utc)
\* on an aware one: the instant, in hours of UTC
ToUTC(last_modified) ==
    IF ~last_modified.aware THEN last_modified.t
    ELSE last_modified.t - last_modified.utcoffset

\* last_modified.isoformat(): the wall clock, and the offset of an aware one
isoformat(last_modified) ==
    IF last_modified.aware THEN <<last_modified.t, "+", last_modified.utcoffset>>
    ELSE <<last_modified.t>>

\* the readings of datetime.utcnow() a collection can start at
CollectionTimes == {1000, 1001}

\* Entries of a page's Contents: last modified 29 days and 23 hours, exactly
\* 30 days, and 30 days and 1 hour before the first collection time; with and
\* without a StorageClass; keys of files, of a dotfile and of a directory
Contents ==
    { [Key |-> <<"a", ".", "B">>, Size |-> 2, LastModified |-> Aware(280, 0),
       StorageClass |-> "GLACIER", ETag |-> "e1"],
      [Key |-> <<"a">>, Size |-> 1, LastModified |-> Aware(281, 0), ETag |-> "e2"],
      [Key |-> <<"a", "/">>, Size |-> 0, LastModified |-> Aware(279, 0),
       StorageClass |-> "STANDARD", ETag |-> "e3"],
      [Key |-> <<"B", ".", "B">>, Size |-> 1, LastModified |-> Aware(282, 2),
       StorageClass |-> "GLACIER"],
      [Key |-> <<".", "a">>, Size |-> 1, LastModified |-> Naive(280), ETag |-> "e5"] }

RECURSIVE ListingsOfLen(_)
ListingsOfLen(n) ==
    IF n = 0 THEN {<<>>}
    ELSE {Append(l, obj) : l \in ListingsOfLen(n - 1), obj \in Contents}

Listings == UNION {ListingsOfLen(n) : n \in 0..MaxObjects}

SampleSizes == {1, DefaultSampleSize}

\* the error codes of a ClientError raised while listing
ListingErrors == {"AccessDenied", "NoSuchBucket"}

\* what get_bucket_location answers: no LocationConstraint, a region, or a
\* ClientError of some code
LocationAnswers == {"None", "us-west-2"} \cup ListingErrors

\* region = location_response.get('LocationConstraint') or 'us-east-1', and
\* 'us-east-1' as well when get_bucket_location raised ClientError
RegionOf(answer) == IF answer \in {"None"} \cup ListingErrors THEN "us-east-1" ELSE answer

\* The list `objects` is kept run-length: an entry stands for `times` equal
\* consecutive elements of the list
Run(obj, times) == [obj |-> obj, times |-> times]

\* len(objects)
RECURSIVE Count(_)
Count(runs) == IF runs = <<>> THEN 0 ELSE runs[1].times + Count(Tail(runs))

\* objects.append(x), n times over
AppendTimes(runs, x, n) ==
    IF n = 0 THEN runs
    ELSE IF runs # <<>> /\ runs[Len(runs)].obj = x
         THEN [runs EXCEPT ![Len(runs)].times = @ + n]
         ELSE Append(runs, Run(x, n))

\* what objects.append stores for an object of storage class storage_class
Stored(obj, storage_class) ==
    [key |-> obj.Key,
     size |-> obj.Size,
     last_modified |-> isoformat(obj.LastModified),
     storage_class |-> storage_class,
     etag |-> IF "ETag" \in DOMAIN obj THEN obj.ETag ELSE ""]

\* the locals of _inventory_bucket before the first page
Locals(self, bucket_name, answer, now) ==
    [sample_size |-> self.sample_size,
     bucket_name |-> bucket_name,
     location_response |-> answer,
     region |-> RegionOf(answer),
     objects |-> <<>>,
     object_count |-> 0,
     total_size |-> 0,
     storage_classes |-> EmptyDict,
     file_extensions |-> EmptyDict,
     age_buckets |-> [recent |-> 0, old |-> 0],
     now |-> now,
     thirty_days_ago |-> now - ThirtyDays,
     position |-> 0]

\* the body of `for obj in page['Contents']`, up to objects.append
Visit(s, obj) ==
    LET object_count == s.object_count + 1
        storage_class == IF "StorageClass" \in DOMAIN obj THEN obj.StorageClass ELSE "STANDARD"
        seen == IF HasKey(s.storage_classes, storage_class) THEN Get(s.storage_classes, storage_class) ELSE 0
        ext == get_file_extension(obj.Key)
        exts == IF HasKey(s.file_extensions, ext) THEN s.file_extensions ELSE Put(s.file_extensions, ext, Ext(0, 0))
        last_modified_utc == ToUTC(obj.LastModified)
    IN  [s EXCEPT
           !.position = @ + 1,
           !.object_count = object_count,
           !.total_size = @ + obj.Size,
           !.storage_classes = Put(@, storage_class, seen + 1),
           !.file_extensions = Put(exts, ext, Ext(Get(exts, ext).count + 1, Get(exts, ext).size + obj.Size)),
           !.age_buckets = IF last_modified_utc > s.thirty_days_ago
                           THEN [@ EXCEPT !.recent = @ + 1]
                           ELSE [@ EXCEPT !.old = @ + 1],
           !.objects = IF object_count <= s.sample_size \/ object_count <= SampleThreshold
                       THEN AppendTimes(@, Stored(obj, storage_class), 1)
                       ELSE @]

\* the test of both `break` statements
SampledEnough(s) == s.object_count > SampleThreshold /\ Count(s.objects) >= s.sample_size

\* the record _inventory_bucket returns after the loop
Returned(s) ==
    [bucket_name |-> s.bucket_name,
     region |-> s.region,
     object_count |-> s.object_count,
     total_size |-> s.total_size,
     sampled |-> s.object_count > SampleThreshold /\ Count(s.objects) < s.object_count,
     sample_size |-> Count(s.objects),
     storage_classes |-> s.storage_classes,
     file_extensions |-> SortByCountDesc(s.file_extensions),
     age_buckets |-> s.age_buckets,
     objects |-> s.objects,
     inventory_date |-> "2023-01-01T00:00:00"]

\* the record _inventory_bucket returns when listing raised AccessDenied
Denied(s) == With(With(AccessDeniedRecord, "bucket_name", s.bucket_name), "objects", <<>>)

InitScan ==
    /\ inventory_data = EmptyDict
    /\ bucket_metrics = EmptyDict
    /\ account_metrics = Unset
    /\ raised = "none"
    /\ pc = "bucket"
    /\ bucket_data = Unset
    /\ metrics = Unset
    /\ NoRanking /\ NoFile /\ NoKey
    /\ listing \in Listings
    /\ \E sample_size \in SampleSizes : scan = [sample_size |-> sample_size]
    /\ aggregator = NoAttributes
    /\ NoFutures

\* _inventory_bucket up to the paginator: the region and thirty_days_ago
StartInventory ==
    /\ pc = "bucket"
    /\ \E answer \in LocationAnswers, now \in CollectionTimes :
           scan' = Locals(scan, "bucket", answer, now)
    /\ pc' = "listing"
    /\ UNCHANGED <<aggVars, raised, rankVars, fileVars, extVars, listing, aggregator, futures>>

\* one turn of the loop over the objects of the pages
VisitObject ==
    /\ pc = "listing"
    /\ scan.position < Len(listing)
    /\ ~SampledEnough(scan)
    /\ scan' = Visit(scan, listing[scan.position + 1])
    /\ UNCHANGED <<aggVars, raised, pc, rankVars, fileVars, extVars, listing, aggregator, futures>>

\* the pages of a bucket of `total` objects are used up, or a `break` left the
\* loop: the record is returned
Return(total) ==
    /\ pc = "listing"
    /\ scan.position = total \/ SampledEnough(scan)
    /\ bucket_data' = Returned(scan)
    /\ pc' = "returned"
    /\ UNCHANGED <<inventory_data, bucket_metrics, account_metrics, metrics, raised,
                   rankVars, fileVars, extVars, scanVars, aggregator, futures>>

ReturnRecord == Return(Len(listing))

\* fetching a page of a bucket of `total` objects raises ClientError:
\* AccessDenied is turned into a record, any other code is raised again
Fails(total) ==
    /\ pc = "listing"
    /\ scan.position % PageSize = 0
    /\ scan.position = 0 \/ scan.position < total
    /\ ~SampledEnough(scan)
    /\ \E error_code \in ListingErrors :
           /\ scan' = With(scan, "error_code", error_code)
           /\ IF error_code = "AccessDenied"
              THEN bucket_data' = Denied(scan) /\ pc' = "returned" /\ UNCHANGED raised
              ELSE raised' = "ClientError" /\ pc' = "raised" /\ UNCHANGED bucket_data
    /\ UNCHANGED <<inventory_data, bucket_metrics, account_metrics, metrics,
                   rankVars, fileVars, extVars, listing, aggregator, futures>>

ListingFails == Fails(Len(listing))

NextScan == StartInventory \/ VisitObject \/ ReturnRecord \/ ListingFails

SpecScan == InitScan /\ [][NextScan]_vars

----------------------------------------------------------------------------
(* S3Inventory._inventory_bucket on a bucket of many objects *)

MaxRuns == 2          \* stretches of the listed bucket

\* The listing of a large bucket is a sequence of stretches, Run(obj, times):
\* `times` consecutive objects that agree with obj in everything the loop
\* reads but the stem of the key (their keys end alike).
RunLengths == {1, 2, SampleThreshold}

LargeContents ==
    { [Key |-> <<"a", ".", "B">>, Size |-> 2, LastModified |-> Aware(280, 0),
       StorageClass |-> "GLACIER", ETag |-> "e1"],
      [Key |-> <<"a">>, Size |-> 1, LastModified |-> Aware(281, 0), ETag |-> "e2"] }

RECURSIVE RunListingsOfLen(_)
RunListingsOfLen(n) ==
    IF n = 0 THEN {<<>>}
    ELSE {Append(l, Run(obj, times)) :
            l \in RunListingsOfLen(n - 1), obj \in LargeContents, times \in RunLengths}

RunListings == UNION {RunListingsOfLen(n) : n \in 0..MaxRuns}

\* a sample_size below the threshold and one above it
LargeSampleSizes == {DefaultSampleSize, SampleThreshold + 2}

\* the object after the first p objects of the listing, and how many objects
\* of its stretch are left, itself included
RECURSIVE RunAt(_, _)
RunAt(runs, p) ==
    IF p < runs[1].times THEN [obj |-> runs[1].obj, left |-> runs[1].times - p]
    ELSE RunAt(Tail(runs), p - runs[1].times)

Max(a, b) == IF a >= b THEN a ELSE b

Min(a, b) == IF a <= b THEN a ELSE b

\* How many turns of the loop, out of `left` on equal objects, take the same
\* branches with no `break` before the last of them: objects are stored while
\* object_count <= max(sample_size, 100000000), and the first turn that ends
\* in `break` is the first with object_count > 100000000 and
\* len(objects) >= sample_size.
Stretch(s, left) ==
    LET stored == Count(s.objects)
        limit == Max(s.sample_size, SampleThreshold)
    IN  IF s.object_count < limit
        THEN Min(Min(left, limit - s.object_count),
                 Max(1, Max(SampleThreshold + 1 - s.object_count, s.sample_size - stored)))
        ELSE IF stored >= s.sample_size THEN 1 ELSE left

\* mutant: the extension histogram counts only the objects that are stored
VisitTimes_StoredOnly(s, obj, k) ==
    LET storage_class == IF "StorageClass" \in DOMAIN obj THEN obj.StorageClass ELSE "STANDARD"
        seen == IF HasKey(s.storage_classes, storage_class) THEN Get(s.storage_classes, storage_class) ELSE 0
        ext == get_file_extension(obj.Key)
        exts == IF HasKey(s.file_extensions, ext) THEN s.file_extensions ELSE Put(s.file_extensions, ext, Ext(0, 0))
        last_modified_utc == ToUTC(obj.LastModified)
        stored == s.object_count + 1 <= s.sample_size \/ s.object_count + 1 <= SampleThreshold
    IN  [s EXCEPT
           !.position = @ + k,
           !.object_count = @ + k,
           !.total_size = @ + k * obj.Size,
           !.storage_classes = Put(@, storage_class, seen + k),
           !.file_extensions = IF stored
                               THEN Put(exts, ext, Ext(Get(exts, ext).count + k, Get(exts, ext).size + k * obj.Size))
                               ELSE @,
           !.age_buckets = IF last_modified_utc > s.thirty_days_ago
                           THEN [@ EXCEPT !.recent = @ + k]
                           ELSE [@ EXCEPT !.old = @ + k],
           !.objects = IF stored THEN AppendTimes(@, Stored(obj, storage_class), k) ELSE @]

\* k turns of the loop body on equal objects that take the same branches
VisitTimes(s, obj, k) ==
    LET storage_class == IF "StorageClass" \in DOMAIN obj THEN obj.StorageClass ELSE "STANDARD"
        seen == IF HasKey(s.storage_classes, storage_class) THEN Get(s.storage_classes, storage_class) ELSE 0
        ext == get_file_extension(obj.Key)
        exts == IF HasKey(s.file_extensions, ext) THEN s.file_extensions ELSE Put(s.file_extensions, ext, Ext(0, 0))
        last_modified_utc == ToUTC(obj.LastModified)
    IN  [s EXCEPT
           !.position = @ + k,
           !.object_count = @ + k,
           !.total_size = @ + k * obj.Size,
           !.storage_classes = Put(@, storage_class, seen + k),
           !.file_extensions = Put(exts, ext, Ext(Get(exts, ext).count + k, Get(exts, ext).size + k * obj.Size)),
           !.age_buckets = IF last_modified_utc > s.thirty_days_ago
                           THEN [@ EXCEPT !.recent = @ + k]
                           ELSE [@ EXCEPT !.old = @ + k],
           !.objects = IF s.object_count + 1 <= s.sample_size \/ s.object_count + 1 <= SampleThreshold
                       THEN AppendTimes(@, Stored(obj, storage_class), k)
                       ELSE @]

\* the number of objects of the bucket
ObjectsIn(runs) == Count(runs)

InitLarge ==
    /\ inventory_data = EmptyDict
    /\ bucket_metrics = EmptyDict
    /\ account_metrics = Unset
    /\ raised = "none"
    /\ pc = "bucket"
    /\ bucket_data = Unset
    /\ metrics = Unset
    /\ NoRanking /\ NoFile /\ NoKey
    /\ listing \in RunListings
    /\ \E sample_size \in LargeSampleSizes : scan = [sample_size |-> sample_size]
    /\ aggregator = NoAttributes
    /\ NoFutures

\* the turns of the loop over the next equal objects, up to a change of branch
VisitStretch ==
    /\ pc = "listing"
    /\ scan.position < ObjectsIn(listing)
    /\ ~SampledEnough(scan)
    /\ LET next == RunAt(listing, scan.position)
       IN  scan' = VisitTimes(scan, next.obj, Stretch(scan, next.left))
    /\ UNCHANGED <<aggVars, raised, pc, rankVars, fileVars, extVars, listing, aggregator, futures>>

ReturnLargeRecord == Return(ObjectsIn(listing))

LargeListingFails == Fails(ObjectsIn(listing))

NextLarge == StartInventory \/ VisitStretch \/ ReturnLargeRecord \/ LargeListingFails

SpecLarge == InitLarge /\ [][NextLarge]_vars

----------------------------------------------------------------------------
(* S3Inventory.collect_inventory: one task per requested bucket *)

MaxTasks == 3         \* names in the list handed to collect_inventory

RequestedNames == {"bucket-1", "bucket-2"}

\* the lists of bucket names, repeated names included
RECURSIVE RequestsOfLen(_)
RequestsOfLen(n) ==
    IF n = 0 THEN {<<>>}
    ELSE {Append(l, b) : l \in RequestsOfLen(n - 1), b \in RequestedNames}

Requests == UNION {RequestsOfLen(n) : n \in 0..MaxTasks}

WorkerCounts == {1, DefaultMaxWorkers}

NoOutcome == [kind |-> "none"]

\* how a call of _inventory_bucket can end: with a record of objects, with the
\* record of a denied bucket, or with an exception
TaskOutcomes(bucket) ==
    { [kind |-> "returned", value |-> With(SmallRecord, "bucket_name", bucket)],
      [kind |-> "returned", value |-> With(FailedRecord, "bucket_name", bucket)],
      [kind |-> "raised", value |-> [message |-> "NoSuchBucket"]] }

\* a bucket of the list, before executor.submit has been called for it;
\* collected is the turn of the as_completed loop that took the future, 0 if
\* none has
NewFuture(bucket) ==
    [bucket |-> bucket, state |-> "new", outcome |-> NoOutcome, collected |-> 0]

\* the record stored for a bucket whose task raised e; error is str(e)
ErrorRecord(bucket, e) ==
    [bucket_name |-> bucket,
     error |-> e.message,
     object_count |-> 0,
     total_size |-> 0,
     region |-> "unknown",
     sampled |-> FALSE,
     sample_size |-> 0,
     storage_classes |-> EmptyDict,
     file_extensions |-> EmptyDict,
     age_buckets |-> [recent |-> 0, old |-> 0],
     objects |-> <<>>,
     inventory_date |-> "2023-01-01T00:00:00"]

\* mutant: the first record stored for a bucket is kept
StoreResult_KeepFirst(inv, future) ==
    IF HasKey(inv, future.bucket) THEN inv
    ELSE Put(inv, future.bucket,
             IF future.outcome.kind = "raised"
             THEN ErrorRecord(future.bucket, future.outcome.value)
             ELSE future.outcome.value)

\* the body of `for future in as_completed(future_to_bucket)`
StoreResult(inv, future) ==
    Put(inv, future.bucket,
        IF future.outcome.kind = "raised"
        THEN ErrorRecord(future.bucket, future.outcome.value)
        ELSE future.outcome.value)

Running(fs) == {i \in 1..Len(fs) : fs[i].state = "running"}

\* as_completed has handed over every future
Exhausted(fs) == \A i \in 1..Len(fs) : fs[i].collected > 0

\* the turns of the as_completed loop so far
Turns(fs) == Cardinality({i \in 1..Len(fs) : fs[i].collected > 0})

InitCollect ==
    /\ inventory_data = EmptyDict
    /\ bucket_metrics = EmptyDict
    /\ account_metrics = Unset
    /\ raised = "none"
    /\ pc = "submit"
    /\ bucket_data = Unset
    /\ metrics = Unset
    /\ NoRanking /\ NoFile /\ NoKey
    /\ listing = <<>>
    /\ \E max_workers \in WorkerCounts :
           scan = [sample_size |-> DefaultSampleSize, max_workers |-> max_workers]
    /\ aggregator = NoAttributes
    /\ \E buckets \in Requests :
           futures = [i \in 1..Len(buckets) |-> NewFuture(buckets[i])]

\* executor.submit(self._inventory_bucket, bucket), for the next bucket
Submit ==
    /\ pc = "submit"
    /\ \E i \in 1..Len(futures) :
          /\ futures[i].state = "new"
          /\ \A j \in 1..(i - 1) : futures[j].state # "new"
          /\ futures' = [futures EXCEPT ![i].state = "queued"]
    /\ UNCHANGED <<aggVars, raised, pc, rankVars, fileVars, extVars, scanVars, aggregator>>

\* a free worker takes the oldest queued task
TaskStarts ==
    /\ Cardinality(Running(futures)) < scan.max_workers
    /\ \E i \in 1..Len(futures) :
          /\ futures[i].state = "queued"
          /\ \A j \in 1..(i - 1) : futures[j].state # "queued"
          /\ futures' = [futures EXCEPT ![i].state = "running"]
    /\ UNCHANGED <<aggVars, raised, pc, rankVars, fileVars, extVars, scanVars, aggregator>>

\* a running _inventory_bucket ends
TaskEnds ==
    /\ \E i \in Running(futures) :
          \E outcome \in TaskOutcomes(futures[i].bucket) :
              futures' = [futures EXCEPT ![i].state = "done", ![i].outcome = outcome]
    /\ UNCHANGED <<aggVars, raised, pc, rankVars, fileVars, extVars, scanVars, aggregator>>

\* every bucket has been submitted: the loop over as_completed begins
AsCompleted ==
    /\ pc = "submit"
    /\ \A i \in 1..Len(futures) : futures[i].state # "new"
    /\ pc' = "collect"
    /\ UNCHANGED <<aggVars, raised, rankVars, fileVars, extVars, scanVars, aggregator, futures>>

\* as_completed hands over a finished future and its result is stored
Collect ==
    /\ pc = "collect"
    /\ \E i \in 1..Len(futures) :
          /\ futures[i].state = "done"
          /\ futures[i].collected = 0
          /\ inventory_data' = StoreResult(inventory_data, futures[i])
          /\ futures' = [futures EXCEPT ![i].collected = Turns(futures) + 1]
    /\ UNCHANGED <<bucket_metrics, account_metrics, bucket_data, metrics, raised, pc,
                   rankVars, fileVars, extVars, scanVars, aggregator>>

\* the loop is over, the executor is shut down: return inventory_data
ReturnInventory ==
    /\ pc = "collect"
    /\ Exhausted(futures)
    /\ pc' = "collected"
    /\ UNCHANGED <<aggVars, raised, rankVars, fileVars, extVars, scanVars, aggregator, futures>>

NextCollect == Submit \/ TaskStarts \/ TaskEnds \/ AsCompleted \/ Collect \/ ReturnInventory

SpecCollect == InitCollect /\ [][NextCollect]_vars

----------------------------------------------------------------------------
(* cli.stats: the tables of the stats command *)

\* the rows of the top buckets table: no arithmetic, the metrics as they are
BucketRows(bm, n) ==
    LET sorted_buckets == SliceTo(SortByFieldDesc(bm, "total_size"), n)
    IN  [i \in 1..Len(sorted_buckets) |->
            [bucket_name |-> sorted_buckets[i].k,
             object_count |-> sorted_buckets[i].v.object_count,
             total_size_gb |-> sorted_buckets[i].v.total_size_gb,
             avg_object_size_kb |-> sorted_buckets[i].v.avg_object_size_kb]]

\* one row of the file extension table:
\* data['count'] / total_objects * 100 and data['size'] / total_size * 100
ExtensionRow(ext, data, total_objects, total_size) ==
    [extension |-> ext,
     count |-> data.count,
     size_gb |-> data.size_gb,
     objects_percent |-> FMul(IntDiv(data.count, total_objects), IntToF(Hundred)),
     size_percent |-> FMul(IntDiv(data.size, total_size), IntToF(Hundred))]

\* the rows of the file extension table; none if file_extensions is empty
ExtensionRows(am, n) ==
    LET sorted_exts == SliceTo(SortByCountDesc(am.file_extensions), n)
    IN  [i \in 1..Len(sorted_exts) |->
            ExtensionRow(sorted_exts[i].k, sorted_exts[i].v, am.total_objects, am.total_size)]

\* the exception the tables end with, or "none"
TablesRaise(am, n) ==
    IF \E i \in 1..Len(ExtensionRows(am, n)) :
           \/ Raises(ExtensionRows(am, n)[i].objects_percent)
           \/ Raises(ExtensionRows(am, n)[i].size_percent)
    THEN "ZeroDivisionError"
    ELSE "none"

\* Records of an inventory file: buckets with objects and bytes, a bucket of
\* zero-byte objects only, an empty bucket, a failed bucket, and a record
\* whose histograms list objects that its object_count does not
StatsRecords ==
    { Record("us-east-1", 3, 1, FALSE, <<KV("STANDARD", 3)>>,
             <<KV("txt", Ext(2, 1)), KV("jpg", Ext(1, 0))>>, 2, 1),
      Record("us-west-2", 2, 0, FALSE, <<KV("STANDARD", 2)>>,
             <<KV("directory", Ext(2, 0))>>, 1, 1),
      Record("us-east-1", 0, 0, FALSE, <<>>, <<>>, 0, 0),
      Record("us-east-1", 0, 0, FALSE, <<KV("STANDARD", 1)>>,
             <<KV("txt", Ext(1, 0))>>, 1, 0),
      AccessDeniedRecord }

StatsTops == {0, 1, DefaultTop}

\* how get_aws_account_id ends
AccountIdAnswers == {"123456789012", "RuntimeError"}

InitStats ==
    /\ inventory_data = EmptyDict
    /\ bucket_metrics = EmptyDict
    /\ account_metrics = Unset
    /\ raised = "none"
    /\ pc = "load"
    /\ bucket_data = Unset
    /\ metrics = Unset
    /\ NoRanking /\ NoFile /\ NoKey /\ NoScan
    /\ aggregator = NoAttributes
    /\ NoFutures

\* one more record of the inventory file
AddStatsRecord ==
    /\ pc = "load"
    /\ Len(inventory_data) < MaxBuckets
    /\ Len(inventory_data) < Len(BucketNames)
    /\ \E r \in StatsRecords :
          LET name == BucketNames[Len(inventory_data) + 1]
          IN  inventory_data' = Put(inventory_data, name, With(r, "bucket_name", name))
    /\ UNCHANGED <<bucket_metrics, account_metrics, raised, pc, bucket_data, metrics>>
    /\ UNCHANGED <<rankVars, fileVars, extVars, scanVars, aggregator, futures>>

\* the stats command on the loaded inventory: aggregate, look up the account,
\* print the three tables; any exception ends in the error exit
Stats ==
    /\ pc = "load"
    /\ \E n \in StatsTops, account_id \in AccountIdAnswers :
          LET res == aggregate_buckets(inventory_data)
              failure == IF res.raised # "none" THEN res.raised
                         ELSE IF AccountRaises(res.value) # "none" THEN AccountRaises(res.value)
                         ELSE IF account_id = "RuntimeError" THEN "RuntimeError"
                         ELSE TablesRaise(aggregate_account(res.value), n)
          IN  /\ top_n' = n
              /\ bucket_metrics' = res.value
              /\ account_metrics' = IF res.raised = "none" /\ AccountRaises(res.value) = "none"
                                    THEN aggregate_account(res.value)
                                    ELSE account_metrics
              /\ top' = IF failure = "none"
                        THEN [buckets |-> BucketRows(res.value, n),
                              extensions |-> ExtensionRows(aggregate_account(res.value), n)]
                        ELSE top
              /\ raised' = failure
              /\ pc' = IF failure = "none" THEN "stats" ELSE "exit_1"
    /\ UNCHANGED <<inventory_data, bucket_data, metrics, sort_by>>
    /\ UNCHANGED <<fileVars, extVars, scanVars, aggregator, futures>>

NextStats == AddStatsRecord \/ Stats

SpecStats == InitStats /\ [][NextStats]_vars

----------------------------------------------------------------------------
(* Properties of _compute_bucket_metrics, checked under SpecBucket *)

\* the record has been through _compute_bucket_metrics
Computed == pc \in {"metrics", "failed"} /\ Complete(bucket_data)

Breakdown == metrics.storage_class_breakdown

\* sum(...) of a sequence of floats: 0 + s[1] + s[2] + ..., left to right
RECURSIVE FSum(_, _)
FSum(s, n) == IF n = 0 THEN FZero ELSE FAdd(FSum(s, n - 1), s[n])

RECURSIVE IntSum(_, _)
IntSum(s, n) == IF n = 0 THEN 0 ELSE IntSum(s, n - 1) + s[n]

Percentages == [i \in 1..Len(Breakdown) |-> Breakdown[i].v.percentage]

ClassCounts ==
    [i \in 1..Len(bucket_data.storage_classes) |-> bucket_data.storage_classes[i].v]

Abs(x) == IF x < 0 THEN -x ELSE x

\* |x - n/d| <= (n/d) * k*u / (1 - k*u) for the float x, the exact value n/d and
\* k roundings of unit roundoff u = 2^-MantissaBits
WithinRoundings(x, n, d, k) ==
    LET T == MaxSignificand
        up == IF x.e >= 0 THEN Pow2(x.e) ELSE 1
        dn == IF x.e < 0 THEN Pow2(-x.e) ELSE 1
    IN  /\ ~Raises(x)
        /\ k < T
        /\ Abs(x.m * up * d - n * dn) * (T - k) <= n * dn * k

\* C3 as claimed: a record with object_count == 0 is computed without a division
\* error and gets avg_object_size == 0, avg_object_size_kb == 0 and every
\* percentage (storage classes and both age buckets) equal to 0
C3_ZeroObjectsAllPercentagesZero ==
    (Computed /\ bucket_data.object_count = 0) =>
        /\ raised = "none"
        /\ metrics.avg_object_size = FZero
        /\ metrics.avg_object_size_kb = FZero
        /\ \A i \in 1..Len(Breakdown) : Breakdown[i].v.percentage = FZero
        /\ metrics.age_breakdown.recent.percentage = FZero
        /\ metrics.age_breakdown.old.percentage = FZero

\* C3 amended: a record with object_count == 0 is computed without a division
\* error and gets avg_object_size == 0, avg_object_size_kb == 0 and every storage
\* class percentage 0; an age percentage is 0 exactly when that age bucket's count
\* is 0, because the age percentages are relative to recent + old
C3_ZeroObjects ==
    (Computed /\ bucket_data.object_count = 0) =>
        /\ raised = "none"
        /\ metrics.avg_object_size = FZero
        /\ metrics.avg_object_size_kb = FZero
        /\ \A i \in 1..Len(Breakdown) : Breakdown[i].v.percentage = FZero
        /\ (metrics.age_breakdown.recent.percentage = FZero)
               <=> (bucket_data.age_buckets.recent = 0)
        /\ (metrics.age_breakdown.old.percentage = FZero)
               <=> (bucket_data.age_buckets.old = 0)

\* C3 witness: a zero-object record with a storage class and a recent object
C3_Witness ==
    /\ pc = "metrics"
    /\ bucket_data.object_count = 0
    /\ Len(Breakdown) = 2
    /\ bucket_data.age_buckets.recent > 0
    /\ bucket_data.age_buckets.old = 0

\* C4 as claimed: with object_count > 0 each class's percentage is
\* count / object_count * 100 and the percentages of the record sum to 100
C4_PercentagesSumTo100 ==
    (Computed /\ bucket_data.object_count > 0) =>
        /\ \A i \in 1..Len(Breakdown) :
              Breakdown[i].v.percentage =
                  FMul(IntDiv(ClassCounts[i], bucket_data.object_count), IntToF(100))
        /\ FSum(Percentages, Len(Percentages)) = IntToF(100)

\* C4 amended: with object_count > 0 each class's percentage is
\* count / object_count * 100 in float arithmetic, and the percentages sum to
\* 100 * (sum of the class counts) / object_count up to the rounding of the
\* k + 1 float operations behind each term (k classes): to 100 only
\* approximately, and only when the class counts sum to object_count
C4_Percentages ==
    (Computed /\ bucket_data.object_count > 0) =>
        /\ raised = "none"
        /\ \A i \in 1..Len(Breakdown) :
              Breakdown[i].v.percentage =
                  FMul(IntDiv(ClassCounts[i], bucket_data.object_count), IntToF(100))
        /\ WithinRoundings(FSum(Percentages, Len(Percentages)),
                           100 * IntSum(ClassCounts, Len(ClassCounts)),
                           bucket_data.object_count,
                           Len(Percentages) + 1)

\* C4 witness: three objects, one in one class and two in the other; the float
\* sum of the two percentages is not 100
C4_Witness ==
    /\ pc = "metrics"
    /\ bucket_data.object_count = 3
    /\ Len(Breakdown) = 2
    /\ ClassCounts[1] = 1
    /\ ClassCounts[2] = 2
    /\ FSum(Percentages, 2) # IntToF(100)

\* C5: with object_count > 0 every class's size is
\* storage_classes[c] * (total_size / object_count) and its size_gb is that
\* value / 1024^3; when the average is a whole number the size is the exact product
C5_EstimatedSize ==
    (Computed /\ bucket_data.object_count > 0) =>
        /\ raised = "none"
        /\ Len(Breakdown) = Len(bucket_data.storage_classes)
        /\ \A i \in 1..Len(Breakdown) :
              LET count == ClassCounts[i]
                  ts == bucket_data.total_size
                  oc == bucket_data.object_count
              IN  /\ Breakdown[i].k = bucket_data.storage_classes[i].k
                  /\ Breakdown[i].v.size = FMul(IntToF(count), IntDiv(ts, oc))
                  /\ Breakdown[i].v.size_gb
                         = FDivPow2(FMul(IntToF(count), IntDiv(ts, oc)), 30)
                  /\ (ts % oc = 0) =>
                         Breakdown[i].v.size = IntToF(count * (ts \div oc))

\* C5 witness: two of three objects in one class, two bytes in all
C5_Witness ==
    /\ pc = "metrics"
    /\ bucket_data.object_count = 3
    /\ bucket_data.total_size = 2
    /\ \E i \in 1..Len(Breakdown) :
          /\ ClassCounts[i] = 2
          /\ Breakdown[i].v.size = FMul(IntToF(2), IntDiv(2, 3))
          /\ Breakdown[i].v.size # FZero

----------------------------------------------------------------------------
(* Properties of aggregate_buckets and aggregate_account, checked under Spec *)

\* aggregate_buckets has been called, and aggregate_account after it
BucketsCalled == pc # "load"

AccountCalled == pc \in {"account", "failed_account"}

\* the records of the inventory that carry no "error" key, in order
NonErrored ==
    SelectSeq(inventory_data, LAMBDA entry : "error" \notin DOMAIN entry.v)

NoDuplicates(s) == \A i, j \in 1..Len(s) : s[i] = s[j] => i = j

\* the entries of a mapping, whatever their order
Entries(d) == {d[i] : i \in 1..Len(d)}

\* C1: when every record without an "error" key has all required keys,
\* aggregate_buckets returns one entry for each key whose record has no "error"
\* key and no entry for any other key
C1_KeysAreNonErroredKeys ==
    (BucketsCalled /\ \A i \in 1..Len(NonErrored) : Complete(NonErrored[i].v)) =>
        /\ raised = "none"
        /\ pc # "failed_buckets"
        /\ NoDuplicates(KeySeq(bucket_metrics))
        /\ KeySet(bucket_metrics) = KeySet(NonErrored)
        /\ Len(bucket_metrics) = Len(NonErrored)

\* C1 witness: a failed bucket between two good ones
C1_Witness ==
    /\ pc = "buckets"
    /\ Len(inventory_data) = 3
    /\ "error" \in DOMAIN inventory_data[2].v
    /\ KeySeq(bucket_metrics) = <<inventory_data[1].k, inventory_data[3].k>>

\* C2: the account metrics are those of the inventory with every errored record
\* removed, whatever numbers the errored records carry
C2_ErroredRecordsContributeNothing ==
    (pc = "account") =>
        account_metrics = aggregate_account(aggregate_buckets(NonErrored).value)

\* C2 witness: an errored record that has objects, bytes and histograms, in an
\* inventory with a good bucket
C2_Witness ==
    /\ pc = "account"
    /\ account_metrics.total_objects > 0
    /\ \E i \in 1..Len(inventory_data) :
          /\ "error" \in DOMAIN inventory_data[i].v
          /\ inventory_data[i].v.object_count > 0
          /\ inventory_data[i].v.total_size > 0
          /\ Len(inventory_data[i].v.storage_classes) > 0

\* sum of f over the buckets 1..n of bucket_metrics
RECURSIVE SumOver(_, _)
SumOver(f, n) == IF n = 0 THEN 0 ELSE SumOver(f, n - 1) + f[n]

OverBuckets(Field(_)) == [i \in 1..Len(bucket_metrics) |-> Field(bucket_metrics[i].v)]

TotalOf(Field(_)) == SumOver(OverBuckets(Field), Len(bucket_metrics))

\* C6: bucket_count is the number of entries, total_objects and total_size are
\* the sums over the buckets, sampled_buckets counts the sampled buckets and
\* age_buckets holds the sums of recent and old; all are 0 on the empty mapping
C6_AccountSums ==
    AccountCalled =>
        /\ pc = "account"
        /\ account_metrics.bucket_count = Len(bucket_metrics)
        /\ account_metrics.total_objects = TotalOf(LAMBDA m : m.object_count)
        /\ account_metrics.total_size = TotalOf(LAMBDA m : m.total_size)
        /\ account_metrics.sampled_buckets =
               Cardinality({i \in 1..Len(bucket_metrics) : bucket_metrics[i].v.sampled})
        /\ account_metrics.age_buckets.recent = TotalOf(LAMBDA m : m.age_buckets.recent)
        /\ account_metrics.age_buckets.old = TotalOf(LAMBDA m : m.age_buckets.old)
        /\ (bucket_metrics = EmptyDict) =>
               /\ account_metrics.bucket_count = 0
               /\ account_metrics.total_objects = 0
               /\ account_metrics.total_size = 0
               /\ account_metrics.sampled_buckets = 0
               /\ account_metrics.age_buckets = [recent |-> 0, old |-> 0]

\* C6 witness: three buckets with objects, one of them sampled and one not
C6_Witness ==
    /\ pc = "account"
    /\ account_metrics.bucket_count = 3
    /\ account_metrics.sampled_buckets = 1
    /\ account_metrics.total_objects > 3
    /\ account_metrics.age_buckets.recent > 0
    /\ account_metrics.age_buckets.old > 0

\* C7: avg_object_size is total_size / total_objects and avg_object_size_kb is
\* that / 1024 when total_objects > 0; both are 0 when total_objects == 0 (the
\* empty mapping included); no division error is raised
C7_AccountAverage ==
    AccountCalled =>
        LET objects == TotalOf(LAMBDA m : m.object_count)
            size == TotalOf(LAMBDA m : m.total_size)
        IN  /\ raised = "none"
            /\ pc = "account"
            /\ objects > 0 =>
                   /\ account_metrics.avg_object_size = RoundRat(size, objects, 0)
                   /\ account_metrics.avg_object_size_kb
                          = FDivPow2(RoundRat(size, objects, 0), 10)
            /\ objects = 0 =>
                   /\ account_metrics.avg_object_size = FZero
                   /\ account_metrics.avg_object_size_kb = FZero

\* the mean of the buckets' own averages, for two buckets
MeanOfAverages ==
    FDivPow2(FAdd(bucket_metrics[1].v.avg_object_size,
                  bucket_metrics[2].v.avg_object_size), 1)

\* C7 witness: two buckets whose object-weighted average differs from the mean
\* of their averages
C7_Witness ==
    /\ pc = "account"
    /\ Len(bucket_metrics) = 2
    /\ account_metrics.total_objects > 0
    /\ account_metrics.avg_object_size # MeanOfAverages

\* C7 witness of the guarded case: buckets, but no objects
C7_WitnessNoObjects ==
    /\ pc = "account"
    /\ Len(bucket_metrics) > 0
    /\ account_metrics.total_objects = 0
    /\ account_metrics.avg_object_size = FZero

----------------------------------------------------------------------------
(* Storage class estimates, file extensions and input order *)

\* the float sum, over the buckets 1..n of the mapping bm in iteration order that
\* have objects and hold the class c, of storage_classes[c] * (total_size /
\* object_count)
RECURSIVE SumOfLocalEstimates(_, _, _)
SumOfLocalEstimates(bm, c, n) ==
    IF n = 0 THEN FZero
    ELSE LET m == bm[n].v
         IN  IF m.object_count > 0 /\ HasKey(m.storage_classes, c)
             THEN FAdd(SumOfLocalEstimates(bm, c, n - 1),
                       FMul(IntToF(Get(m.storage_classes, c)),
                            RoundRat(m.total_size, m.object_count, 0)))
             ELSE SumOfLocalEstimates(bm, c, n - 1)

\* the number of objects of class c in the buckets 1..n of bm
RECURSIVE ClassCountIn(_, _, _)
ClassCountIn(bm, c, n) ==
    IF n = 0 THEN 0
    ELSE ClassCountIn(bm, c, n - 1)
         + (IF HasKey(bm[n].v.storage_classes, c) THEN Get(bm[n].v.storage_classes, c)
            ELSE 0)

ClassesOf(bm) == UNION {KeySet(bm[i].v.storage_classes) : i \in 1..Len(bm)}

\* storage_classes[c].count * the account's average object size
GlobalEstimate(c) ==
    FMul(IntToF(Get(account_metrics.storage_classes, c).count),
         account_metrics.avg_object_size)

\* C8: every class seen in a bucket has an account entry whose size is the sum,
\* over the buckets with object_count > 0, of that bucket's
\* storage_classes[c] * (total_size / object_count), added in iteration order
C8_SizeIsSumOfLocalEstimates ==
    AccountCalled =>
        /\ raised = "none"
        /\ pc = "account"
        /\ KeySet(account_metrics.storage_classes) = ClassesOf(bucket_metrics)
        /\ NoDuplicates(KeySeq(account_metrics.storage_classes))
        /\ \A c \in ClassesOf(bucket_metrics) :
              Get(account_metrics.storage_classes, c).size
                  = SumOfLocalEstimates(bucket_metrics, c, Len(bucket_metrics))

\* C8 witness: a class held by two buckets with different averages and by a
\* bucket without objects, whose size is not count * account average
C8_Witness ==
    /\ pc = "account"
    /\ Len(bucket_metrics) = 3
    /\ \E c \in ClassesOf(bucket_metrics) :
          /\ \A i \in 1..3 : HasKey(bucket_metrics[i].v.storage_classes, c)
          /\ \E i \in 1..3 : bucket_metrics[i].v.object_count = 0
          /\ \E i, j \in 1..3 :
                /\ bucket_metrics[i].v.object_count > 0
                /\ bucket_metrics[j].v.object_count > 0
                /\ bucket_metrics[i].v.avg_object_size # bucket_metrics[j].v.avg_object_size
          /\ Get(account_metrics.storage_classes, c).size # GlobalEstimate(c)

\* the count and the size of the extension x summed over the buckets 1..n of bm
RECURSIVE ExtTotal(_, _, _)
ExtTotal(bm, x, n) ==
    IF n = 0 THEN [count |-> 0, size |-> 0]
    ELSE LET rest == ExtTotal(bm, x, n - 1)
             fe == bm[n].v.file_extensions
         IN  IF HasKey(fe, x)
             THEN [count |-> rest.count + Get(fe, x).count,
                   size |-> rest.size + Get(fe, x).size]
             ELSE rest

ExtensionsOf(bm) == UNION {KeySet(bm[i].v.file_extensions) : i \in 1..Len(bm)}

\* where the extension x is first met while iterating the buckets in order: the
\* bucket, and the position in that bucket's file_extensions
FirstSeen(bm, x) ==
    LET b == CHOOSE i \in 1..Len(bm) :
                 /\ HasKey(bm[i].v.file_extensions, x)
                 /\ \A j \in 1..(i - 1) : ~HasKey(bm[j].v.file_extensions, x)
        fe == bm[b].v.file_extensions
    IN  <<b, CHOOSE i \in 1..Len(fe) : fe[i].k = x>>

Earlier(p, q) == p[1] < q[1] \/ (p[1] = q[1] /\ p[2] < q[2])

\* C9: file_extensions holds for each extension the count and the size summed
\* over all buckets, in non-increasing order of count, extensions of equal count
\* in the order in which they were first met
C9_ExtensionsSummedAndSorted ==
    (pc = "account") =>
        LET fe == account_metrics.file_extensions
        IN  /\ KeySet(fe) = ExtensionsOf(bucket_metrics)
            /\ NoDuplicates(KeySeq(fe))
            /\ \A i \in 1..Len(fe) :
                  /\ fe[i].v.count = ExtTotal(bucket_metrics, fe[i].k, Len(bucket_metrics)).count
                  /\ fe[i].v.size = ExtTotal(bucket_metrics, fe[i].k, Len(bucket_metrics)).size
            /\ \A i, j \in 1..Len(fe) :
                  i < j =>
                      /\ fe[i].v.count >= fe[j].v.count
                      /\ fe[i].v.count = fe[j].v.count =>
                             Earlier(FirstSeen(bucket_metrics, fe[i].k),
                                     FirstSeen(bucket_metrics, fe[j].k))

\* C9 witness: three extensions, the first met with the smallest count and the
\* other two tied, so the sort moves entries and keeps the tie in order
C9_Witness ==
    /\ pc = "account"
    /\ Len(bucket_metrics) >= 2
    /\ LET fe == account_metrics.file_extensions
       IN  /\ Len(fe) = 3
           /\ fe[1].v.count = fe[2].v.count
           /\ fe[2].v.count > fe[3].v.count
           /\ FirstSeen(bucket_metrics, fe[3].k) = <<1, 1>>
           /\ fe[1].v.count > Get(bucket_metrics[1].v.file_extensions, fe[3].k).count

----------------------------------------------------------------------------
(* aggregate_account on the same entries in another order *)

\* the mapping bm with its entries in the order f
Reordered(bm, f) == [i \in 1..Len(bm) |-> bm[f[i]]]

Reorderings(bm) == {Reordered(bm, f) : f \in Permutations(1..Len(bm))}

\* the account-level numbers that are sums of ints, and the per-label ints
SameIntegers(a, b) ==
    /\ a.total_objects = b.total_objects
    /\ a.total_size = b.total_size
    /\ a.age_buckets = b.age_buckets
    /\ Entries(a.regions) = Entries(b.regions)
    /\ a.sampled_buckets = b.sampled_buckets
    /\ KeySet(a.storage_classes) = KeySet(b.storage_classes)
    /\ \A c \in KeySet(a.storage_classes) :
          Get(a.storage_classes, c).count = Get(b.storage_classes, c).count
    /\ KeySet(a.file_extensions) = KeySet(b.file_extensions)
    /\ \A x \in KeySet(a.file_extensions) :
          /\ Get(a.file_extensions, x).count = Get(b.file_extensions, x).count
          /\ Get(a.file_extensions, x).size = Get(b.file_extensions, x).size

SameClassSizes(a, b) ==
    \A c \in KeySet(a.storage_classes) \cap KeySet(b.storage_classes) :
        Get(a.storage_classes, c).size = Get(b.storage_classes, c).size

\* the buckets of bm that contribute an estimate to class c
Contributors(bm, c) ==
    {i \in 1..Len(bm) : bm[i].v.object_count > 0 /\ HasKey(bm[i].v.storage_classes, c)}

LocalEstimate(m, c) ==
    FMul(IntToF(Get(m.storage_classes, c)), RoundRat(m.total_size, m.object_count, 0))

\* the least exponent among the estimates of class c (0 when there is none)
RECURSIVE LeastExp(_, _, _)
LeastExp(bm, c, n) ==
    IF n = 0 THEN 0
    ELSE LET rest == LeastExp(bm, c, n - 1)
         IN  IF n \in Contributors(bm, c) /\ LocalEstimate(bm[n].v, c).e < rest
             THEN LocalEstimate(bm[n].v, c).e
             ELSE rest

\* the exact (unrounded) sum of the estimates of class c, in units of 2^lo
RECURSIVE ExactEstimateSum(_, _, _, _)
ExactEstimateSum(bm, c, n, lo) ==
    IF n = 0 THEN 0
    ELSE ExactEstimateSum(bm, c, n - 1, lo)
         + (IF n \in Contributors(bm, c)
            THEN LocalEstimate(bm[n].v, c).m * Pow2(LocalEstimate(bm[n].v, c).e - lo)
            ELSE 0)

\* the size of class c is the exact sum of its estimates up to the rounding of the
\* additions: one for each contributing bucket after the first
SizeWithinRoundings(a, bm, c) ==
    LET lo == LeastExp(bm, c, Len(bm))
        k == Cardinality(Contributors(bm, c))
    IN  WithinRoundings(Get(a.storage_classes, c).size,
                        ExactEstimateSum(bm, c, Len(bm), lo),
                        Pow2(-lo),
                        IF k = 0 THEN 0 ELSE k - 1)

\* C10 as claimed: in whatever order the entries are given, aggregate_account
\* yields the same total_objects, total_size, age_buckets, regions and
\* sampled_buckets and the same count and size for every storage class and every
\* file extension
C10_OrderIndependent ==
    (pc = "account") =>
        \A bm \in Reorderings(bucket_metrics) :
            /\ SameIntegers(account_metrics, aggregate_account(bm))
            /\ SameClassSizes(account_metrics, aggregate_account(bm))

\* C10 amended: in whatever order the entries are given, aggregate_account yields
\* the same total_objects, total_size, age_buckets, regions and sampled_buckets,
\* the same count for every storage class and the same count and size for every
\* file extension; a storage class's size is a float sum accumulated in iteration
\* order, the same in every order when at most two buckets contribute to the
\* class, and otherwise equal to the exact sum of the per-bucket estimates only
\* up to the rounding of the additions
C10_OrderIndependentUpToRounding ==
    (pc = "account") =>
        \A bm \in Reorderings(bucket_metrics) :
            LET a == aggregate_account(bm)
            IN  /\ SameIntegers(account_metrics, a)
                /\ \A c \in KeySet(a.storage_classes) :
                      /\ SizeWithinRoundings(a, bm, c)
                      /\ Cardinality(Contributors(bm, c)) <= 2 =>
                             Get(a.storage_classes, c).size
                                 = Get(account_metrics.storage_classes, c).size

\* C10 witness: three buckets contribute to a class, and another order of the
\* same entries gives the class another size
C10_Witness ==
    /\ pc = "account"
    /\ \E bm \in Reorderings(bucket_metrics) :
          /\ bm # bucket_metrics
          /\ SameIntegers(account_metrics, aggregate_account(bm))
          /\ \E c \in KeySet(account_metrics.storage_classes) :
                /\ Cardinality(Contributors(bm, c)) = 3
                /\ Get(aggregate_account(bm).storage_classes, c).size
                       # Get(account_metrics.storage_classes, c).size

----------------------------------------------------------------------------
(* Properties of the ranking helpers, checked under SpecTop *)

TopBucketsCalled == pc = "ranked_buckets"

TopExtensionsCalled == pc = "ranked_extensions"

\* the field is a key of every metrics object of the mapping
OnEveryEntry(field) ==
    \A i \in 1..Len(bucket_metrics) : field \in DOMAIN bucket_metrics[i].v

\* the field is a key of none of them
OnNoEntry(field) ==
    \A i \in 1..Len(bucket_metrics) : field \notin DOMAIN bucket_metrics[i].v

\* the entries of the list are in non-increasing order of the field
NonIncreasing(list, field) ==
    \A i, j \in 1..Len(list) :
        i < j => ~Less(FieldKind(field), list[i][field], list[j][field])

\* the list holds the values of len(list) entries of the mapping, and no entry
\* left out has a larger value of the field than a returned one
HoldsTheLargest(list, items, field) ==
    \E K \in SUBSET (1..Len(items)) :
        /\ Cardinality(K) = Len(list)
        /\ \E f \in [1..Len(list) -> K] :
              /\ \A a, b \in 1..Len(list) : f[a] = f[b] => a = b
              /\ \A a \in 1..Len(list) : list[a][field] = items[f[a]].v[field]
        /\ \A out \in (1..Len(items)) \ K, a \in 1..Len(list) :
              ~Less(FieldKind(field), list[a][field], items[out].v[field])

\* "at most n entries" of a list: no entry at all for an n below zero
AtMost(n, available) ==
    IF n < 0 THEN 0 ELSE IF n < available THEN n ELSE available

\* the values of the field can be put in order (Python orders no dicts)
Orderable(field) == FieldKind(field) # "dict"

\* C11: for any mapping, any n and any sort_by field present on every entry,
\* get_top_buckets returns at most n entries and at most as many as the mapping
\* has (all of them when n exceeds that number), in non-increasing order of the
\* field, and no bucket left out has a larger value than a returned one.
C11_TopBuckets ==
    (TopBucketsCalled /\ OnEveryEntry(sort_by) /\ Orderable(sort_by)) =>
        /\ raised = "none"
        /\ Len(top) <= AtMost(top_n, Len(bucket_metrics))
        /\ top_n > Len(bucket_metrics) => Len(top) = Len(bucket_metrics)
        /\ NonIncreasing(top, sort_by)
        /\ HoldsTheLargest(top, bucket_metrics, sort_by)

\* get_top_buckets(top_n=-1) on three buckets has returned two of them
C11_Witness ==
    /\ TopBucketsCalled
    /\ sort_by = "total_size"
    /\ top_n = 0 - 1
    /\ Len(bucket_metrics) = 3
    /\ raised = "none"
    /\ Len(top) = 2

\* what get_top_buckets does keep: for a count n >= 0 and a field whose values
\* Python can order, the whole of C11
TopBucketsOfACount ==
    (/\ TopBucketsCalled
     /\ OnEveryEntry(sort_by)
     /\ top_n >= 0
     /\ Orderable(sort_by)) =>
        /\ raised = "none"
        /\ Len(top) = AtMost(top_n, Len(bucket_metrics))
        /\ NonIncreasing(top, sort_by)
        /\ HoldsTheLargest(top, bucket_metrics, sort_by)

\* C12: for any account metrics and any n, get_top_extensions returns the
\* min(n, number of extensions) extensions with the largest count, in
\* non-increasing order of count, each entry carrying its label in "extension"
\* together with that extension's count and size.
C12_TopExtensions ==
    TopExtensionsCalled =>
        LET exts == account_metrics.file_extensions
        IN  /\ Len(top) = AtMost(top_n, Len(exts))
            /\ \A i, j \in 1..Len(top) : i < j => top[i].count >= top[j].count
            /\ \A i, j \in 1..Len(top) : top[i].extension = top[j].extension => i = j
            /\ \A i \in 1..Len(top) :
                  /\ HasKey(exts, top[i].extension)
                  /\ top[i].count = Get(exts, top[i].extension).count
                  /\ top[i].size = Get(exts, top[i].extension).size
            /\ \A e \in 1..Len(exts), i \in 1..Len(top) :
                  (\A a \in 1..Len(top) : top[a].extension # exts[e].k)
                      => exts[e].v.count <= top[i].count

\* get_top_extensions(top_n=-1) on three extensions has returned two of them
C12_Witness ==
    /\ TopExtensionsCalled
    /\ top_n = 0 - 1
    /\ Len(account_metrics.file_extensions) = 3
    /\ Len(top) = 2

\* what get_top_extensions does keep: the whole of C12 for a count n >= 0
TopExtensionsOfACount ==
    (TopExtensionsCalled /\ top_n >= 0) => C12_TopExtensions

\* C13: get_top_buckets called with a sort_by field that is on none of the
\* metrics objects fails with an error instead of returning a list, for every
\* mapping and every n, the empty mapping and n == 0 included.
C13_MissingFieldFails ==
    (TopBucketsCalled /\ OnNoEntry(sort_by)) => raised # "none"

\* get_top_buckets has returned the empty list for a field no schema has
C13_Witness ==
    /\ TopBucketsCalled
    /\ sort_by = "no_such_field"
    /\ bucket_metrics = EmptyDict
    /\ raised = "none"
    /\ top = <<>>

\* what get_top_buckets does keep: KeyError whenever an entry lacks the field,
\* whatever n is
MissingFieldOnAnEntryFails ==
    (TopBucketsCalled /\ ~OnEveryEntry(sort_by)) => raised = "KeyError"

\* C14: every entry returned by get_top_buckets has its bucket_name equal to
\* the key its metrics are stored under in the mapping, also when the metrics
\* object has a bucket_name of its own with another value.
C14_BucketNameIsTheKey ==
    (TopBucketsCalled /\ raised = "none") =>
        \A i \in 1..Len(top) :
            \E j \in 1..Len(bucket_metrics) :
                /\ top[i].bucket_name = bucket_metrics[j].k
                /\ \A f \in DOMAIN bucket_metrics[j].v \ {"bucket_name"} :
                      top[i][f] = bucket_metrics[j].v[f]

\* an entry has been returned under the name its metrics carry, which is the
\* key of no entry of the mapping
C14_Witness ==
    /\ TopBucketsCalled
    /\ raised = "none"
    /\ \E i \in 1..Len(top) :
          /\ top[i].bucket_name = "bucket-0"
          /\ ~HasKey(bucket_metrics, "bucket-0")

\* what get_top_buckets does keep: the entry is named by its metrics'
\* bucket_name if they have one, and by the key otherwise
BucketNameIsTheMetricsOwn ==
    (TopBucketsCalled /\ raised = "none") =>
        \A i \in 1..Len(top) :
            \E j \in 1..Len(bucket_metrics) :
                /\ top[i] = Annotate("bucket_name", bucket_metrics[j].k, bucket_metrics[j].v)
                /\ top[i].bucket_name =
                      (IF "bucket_name" \in DOMAIN bucket_metrics[j].v
                       THEN bucket_metrics[j].v.bucket_name
                       ELSE bucket_metrics[j].k)

----------------------------------------------------------------------------
(* Malformed records, checked under SpecMalformed *)

\* the positions of the records that carry no "error" and lack a required key
MalformedAt ==
    {i \in 1..Len(inventory_data) :
        ~Errored(inventory_data[i].v) /\ ~Complete(inventory_data[i].v)}

----------------------------------------------------------------------------
(* Side effects, checked under SpecCalls *)

----------------------------------------------------------------------------
(* Inventory files, checked under SpecFile *)

\* the key load_inventory files a line under
NameOf(line) ==
    LET record == loads("dict", line)
    IN  IF "bucket_name" \in DOMAIN record THEN record.bucket_name ELSE "unknown"

\* the lines of the file that carry the name
LinesNamed(name) ==
    {i \in 1..Len(inventory_file) : NameOf(inventory_file[i]) = name}

LastLineNamed(name) ==
    CHOOSE i \in LinesNamed(name) : \A j \in LinesNamed(name) : j <= i

\* C17: load_inventory on a stream in which several records share a
\* bucket_name returns a mapping with a single entry for that name, whose value
\* is the record of the last such line; records of other names are unaffected.
C17_LastWriteWins ==
    (pc = "read" /\ raised = "none") =>
        /\ NoDuplicates(KeySeq(loaded))
        /\ KeySet(loaded) = {NameOf(inventory_file[i]) : i \in 1..Len(inventory_file)}
        /\ \A name \in KeySet(loaded) :
              Get(loaded, name) = loads("dict", inventory_file[LastLineNamed(name)])

\* a file of three lines has been loaded in which the first and the last line
\* name one bucket, with different records, and the second another bucket
C17_Witness ==
    /\ pc = "read"
    /\ raised = "none"
    /\ Len(inventory_file) = 3
    /\ LinesNamed("bucket-1") = {1, 3}
    /\ LinesNamed("bucket-2") = {2}
    /\ inventory_file[1] # inventory_file[3]
    /\ Len(loaded) = 2
    /\ Get(loaded, "bucket-1").object_count = 1
    /\ Get(loaded, "bucket-2") = With(FailedRecord, "bucket_name", "bucket-2")

\* every record of the mapping is stored under its own bucket_name
KeyedByName(inv) ==
    \A i \in 1..Len(inv) :
        "bucket_name" \in DOMAIN inv[i].v /\ inv[i].v.bucket_name = inv[i].k

\* C18: for any inventory mapping in which every record's bucket_name equals
\* the key it is stored under, write_inventory followed by load_inventory of
\* the written file returns a mapping with the same keys and the same record
\* for each key.
C18_WriteThenLoad ==
    (pc = "read_back" /\ KeyedByName(inventory_data)) =>
        /\ raised = "none"
        /\ KeySeq(loaded) = KeySeq(inventory_data)
        /\ \A name \in KeySet(inventory_data) :
              Get(loaded, name) = Get(inventory_data, name)

\* a mapping of three buckets, one of them failed and one with numbers of
\* several digits, has been written over a file that held a line and read back
C18_Witness ==
    /\ pc = "read_back"
    /\ KeyedByName(inventory_data)
    /\ Len(inventory_data) = 3
    /\ \E i \in 1..3 : Errored(inventory_data[i].v)
    /\ \E i \in 1..3 : ~Errored(inventory_data[i].v) /\ inventory_data[i].v.total_size = 1024
    /\ Len(inventory_file) = 3
    /\ inventory_file[1].t = "object"
    /\ loaded = inventory_data

----------------------------------------------------------------------------
(* File extensions, checked under SpecExt *)

\* the text of the key after its last c, and the whole key if it has no c
AfterLast(chars, c) == SubSeq(chars, RFind(chars, c) + 1, Len(chars))

Contains(chars, c) == \E i \in 1..Len(chars) : chars[i] = c

\* C20: _get_file_extension maps every key ending in '/' to "directory", every
\* other key whose name contains no '.' to "no-extension", and every other key
\* to the lowercase text after the last '.' of the key.
C20_ExtensionOfKey ==
    pc = "extension" =>
        extension =
            (IF EndsWith(key, "/") THEN "directory"
             ELSE IF ~Contains(AfterLast(key, "/"), ".") THEN "no-extension"
             ELSE Join(Lower(AfterLast(key, "."))))

\* the key ".a", whose name has a '.', has been labelled "no-extension"
C20_Witness ==
    /\ pc = "extension"
    /\ key = <<".", "a">>
    /\ extension = "no-extension"

\* what _get_file_extension does keep: the claim, for every key whose last
\* path segment is not "." and has no '.' or a last '.' that is neither its
\* first nor its last character
ExtensionOfPlainName ==
    LET name == AfterLast(key, "/")
        dot == RFind(name, ".")
    IN  (/\ pc = "extension"
         /\ name # <<".">>
         /\ dot = 0 \/ (1 < dot /\ dot < Len(name))) =>
            C20_ExtensionOfKey

\* and for the other names: a last '.' that is the first or the last character
\* of the name gives "no-extension", and a last segment "." is passed over
ExtensionOfDotName ==
    LET name == AfterLast(key, "/")
        dot == RFind(name, ".")
    IN  /\ (pc = "extension" /\ name # <<".">> /\ dot > 0 /\ (dot = 1 \/ dot = Len(name)))
              => extension = "no-extension"
        /\ (pc = "extension" /\ key = <<"a", ".", "B", "/", ".">>) => extension = "b"

----------------------------------------------------------------------------
(* Age buckets, checked under SpecScan *)

Scanning == pc \in {"listing", "returned", "raised"}

\* how many of the objects visited so far satisfy P
VisitedThat(P(_)) == Cardinality({i \in 1..scan.position : P(listing[i])})

\* hours from the object's last modification to the collection time
AgeOf(obj) == scan.now - ToUTC(obj.LastModified)

\* C19: an object last modified at most 30 days before the collection time,
\* exactly 30 days included, is counted in age_buckets.recent, and every other
\* object in age_buckets.old.
C19_RecentUpToThirtyDays ==
    Scanning =>
        /\ scan.age_buckets.recent = VisitedThat(LAMBDA obj : AgeOf(obj) <= ThirtyDays)
        /\ scan.age_buckets.old = VisitedThat(LAMBDA obj : AgeOf(obj) > ThirtyDays)

\* a bucket whose only object was modified exactly 30 days before the
\* collection time has been scanned, and the object sits in age_buckets.old
C19_Witness ==
    /\ pc = "returned"
    /\ Len(listing) = 1
    /\ AgeOf(listing[1]) = ThirtyDays
    /\ "error" \notin DOMAIN bucket_data
    /\ bucket_data.age_buckets = [recent |-> 0, old |-> 1]

\* what the scan does keep: recent counts the objects modified less than 30
\* days before the collection time, old the others, and the returned record
\* carries these counts
RecentUnderThirtyDays ==
    /\ Scanning =>
          /\ scan.age_buckets.recent = VisitedThat(LAMBDA obj : AgeOf(obj) < ThirtyDays)
          /\ scan.age_buckets.old = VisitedThat(LAMBDA obj : AgeOf(obj) >= ThirtyDays)
    /\ (pc = "returned" /\ "error" \notin DOMAIN bucket_data) =>
          bucket_data.age_buckets = scan.age_buckets

----------------------------------------------------------------------------
(* Sampling, checked under SpecLarge *)

\* _inventory_bucket has returned the record of a listing that did not fail
ReturnedRecord == pc = "returned" /\ "error" \notin DOMAIN bucket_data

\* the loop was left before the last object of the bucket
StoppedEarly == scan.position < ObjectsIn(listing)

\* C21: whenever _inventory_bucket stops enumerating before it has visited
\* every object of the bucket, the record it returns has sampled == true, for
\* every sample_size, one above the 100,000,000 threshold included.
C21_EarlyStopIsSampled ==
    (ReturnedRecord /\ StoppedEarly) => bucket_data.sampled

\* with a sample_size above the threshold, the loop has been left before the
\* end of the bucket and the record says sampled == false
C21_Witness ==
    /\ ReturnedRecord /\ StoppedEarly
    /\ scan.sample_size > SampleThreshold
    /\ ~bucket_data.sampled

\* what the scan does keep: with a sample_size of at most the threshold, an
\* early stop is flagged
EarlyStopIsSampledBelowThreshold ==
    (ReturnedRecord /\ StoppedEarly /\ scan.sample_size <= SampleThreshold) =>
        bucket_data.sampled

\* C22: in a returned record with sampled == true, object_count is the true
\* number of objects of the bucket, not the number of objects visited.
C22_ObjectCountIsTheTotal ==
    (ReturnedRecord /\ bucket_data.sampled) =>
        bucket_data.object_count = ObjectsIn(listing)

\* a sampled record whose object_count is short of the bucket's objects
C22_Witness ==
    /\ ReturnedRecord /\ bucket_data.sampled
    /\ bucket_data.object_count = SampleThreshold + 1
    /\ ObjectsIn(listing) > SampleThreshold + 1

\* what the scan does keep: object_count is the number of objects visited
ObjectCountIsTheVisited ==
    /\ pc \in {"listing", "returned", "raised"} => scan.object_count = scan.position
    /\ ReturnedRecord => bucket_data.object_count = scan.position

\* C23: for a bucket of more than 100,000,000 objects the number of stored
\* object records (sample_size, the length of objects) is at most the
\* configured sample_size; for a bucket of at most 100,000,000 objects every
\* object is stored and sampled is false.
C23_StoredWithinSampleSize ==
    ReturnedRecord =>
        /\ bucket_data.sample_size = Count(bucket_data.objects)
        /\ IF ObjectsIn(listing) > SampleThreshold
           THEN bucket_data.sample_size <= scan.sample_size
           ELSE /\ bucket_data.sample_size = ObjectsIn(listing)
                /\ ~bucket_data.sampled

\* a bucket above the threshold, scanned with the default sample_size, of
\* which 100,000,000 object records have been stored
C23_Witness ==
    /\ ReturnedRecord
    /\ ObjectsIn(listing) > SampleThreshold
    /\ scan.sample_size = DefaultSampleSize
    /\ bucket_data.sample_size = SampleThreshold

\* what the scan does keep: the stored records are the first
\* max(sample_size, 100,000,000) objects of the bucket, or all of them
StoredWithinThreshold ==
    ReturnedRecord =>
        /\ bucket_data.sample_size = Count(bucket_data.objects)
        /\ bucket_data.sample_size =
               Min(ObjectsIn(listing), Max(scan.sample_size, SampleThreshold))
        /\ ObjectsIn(listing) <= SampleThreshold => ~bucket_data.sampled

RECURSIVE SumSeq(_)
SumSeq(ns) == IF ns = <<>> THEN 0 ELSE ns[1] + SumSeq(Tail(ns))

SumOf(d, F(_)) == SumSeq([i \in 1..Len(d) |-> F(d[i].v)])

\* every histogram of the record or of the locals r accounts for each object
HistogramsAddUp(r) ==
    /\ r.age_buckets.recent + r.age_buckets.old = r.object_count
    /\ SumOf(r.storage_classes, LAMBDA n : n) = r.object_count
    /\ SumOf(r.file_extensions, LAMBDA e : e.count) = r.object_count
    /\ SumOf(r.file_extensions, LAMBDA e : e.size) = r.total_size

\* C26: after every turn of the enumeration loop and in every non-errored
\* record returned, sampled or not, age_buckets.recent + age_buckets.old, the
\* storage_classes counts and the file_extensions counts each sum to
\* object_count, and the file_extensions sizes sum to total_size.
C26_HistogramsAddUp ==
    /\ pc = "listing" => HistogramsAddUp(scan)
    /\ ReturnedRecord => HistogramsAddUp(bucket_data)

\* C26 witness: a record returned after an early stop, with objects of two
\* extensions, some of them visited without being stored
C26_Witness ==
    /\ ReturnedRecord /\ StoppedEarly
    /\ Len(bucket_data.file_extensions) = 2
    /\ bucket_data.sample_size < bucket_data.object_count

\* a stretch is the loop body repeated: one turn of it is Visit, and a stretch
\* cut in two is the two parts one after the other
StretchIsRepeatedVisit ==
    (pc = "listing" /\ StoppedEarly /\ ~SampledEnough(scan)) =>
        LET next == RunAt(listing, scan.position)
            k == Stretch(scan, next.left)
        IN  /\ k >= 1 /\ k <= next.left
            /\ VisitTimes(scan, next.obj, 1) = Visit(scan, next.obj)
            /\ \A a \in {1, k - 1} :
                  (0 < a /\ a < k) =>
                      LET half == VisitTimes(scan, next.obj, a)
                      IN  /\ ~SampledEnough(half)
                          /\ Stretch(half, next.left - a) = k - a
                          /\ VisitTimes(half, next.obj, k - a) = VisitTimes(scan, next.obj, k)

----------------------------------------------------------------------------
(* AccessDenied, checked under SpecScan *)

\* _inventory_bucket has ended, by a return or by an exception
Ended == pc \in {"returned", "raised"}

\* the provider answered a call of this run with AccessDenied
DeniedBy(call) ==
    IF call = "get_bucket_location" THEN scan.location_response = "AccessDenied"
    ELSE "error_code" \in DOMAIN scan /\ scan.error_code = "AccessDenied"

\* the record of a bucket to which access was denied
IsDeniedRecord(r) ==
    /\ DOMAIN r = {"bucket_name", "error", "object_count", "total_size", "objects"}
    /\ r.bucket_name = scan.bucket_name
    /\ r.error = "Access denied"
    /\ r.object_count = 0
    /\ r.total_size = 0
    /\ r.objects = <<>>

\* C25: when the provider answers a call made by _inventory_bucket,
\* get_bucket_location included, with AccessDenied, _inventory_bucket does not
\* raise and returns a record with the bucket's name, error == "Access denied",
\* object_count == 0, total_size == 0 and objects == [].
C25_AccessDeniedGivesErrorRecord ==
    (Ended /\ (DeniedBy("get_bucket_location") \/ DeniedBy("list_objects_v2"))) =>
        pc = "returned" /\ IsDeniedRecord(bucket_data)

\* get_bucket_location was denied, the listing went through, and the record
\* returned has no error
C25_Witness ==
    /\ pc = "returned"
    /\ DeniedBy("get_bucket_location")
    /\ Len(listing) > 0
    /\ "error" \notin DOMAIN bucket_data
    /\ bucket_data.region = "us-east-1"
    /\ bucket_data.object_count = Len(listing)

\* what _inventory_bucket does keep: AccessDenied on a page of the listing
\* gives the error record, and no exception
DeniedListingGivesErrorRecord ==
    (Ended /\ DeniedBy("list_objects_v2")) =>
        pc = "returned" /\ IsDeniedRecord(bucket_data)

----------------------------------------------------------------------------
(* collect_inventory, checked under SpecCollect *)

Requested == {futures[i].bucket : i \in 1..Len(futures)}

TasksFor(bucket) == {i \in 1..Len(futures) : futures[i].bucket = bucket}

\* the mapping has exactly one record for each distinct requested name
OneRecordEach ==
    /\ KeySet(inventory_data) = Requested
    /\ Len(inventory_data) = Cardinality(Requested)

\* the record for the task i: what it returned, or the error record
RecordOfTask(i) ==
    IF futures[i].outcome.kind = "raised"
    THEN ErrorRecord(futures[i].bucket, futures[i].outcome.value)
    ELSE futures[i].outcome.value

\* the statement of C24 as it was made: every task has finished, there is one
\* record per requested name, every bucket of which a task raised has an
\* error record with object_count 0 and total_size 0, and every bucket of
\* which a task returned has the record that task returned
C24_OneRecordPerTask ==
    pc = "collected" =>
        /\ \A i \in 1..Len(futures) : futures[i].state = "done"
        /\ OneRecordEach
        /\ \A i \in 1..Len(futures) :
              LET r == Get(inventory_data, futures[i].bucket)
              IN  IF futures[i].outcome.kind = "raised"
                  THEN "error" \in DOMAIN r /\ r.object_count = 0 /\ r.total_size = 0
                  ELSE r = futures[i].outcome.value

\* the task of a bucket that the as_completed loop took last
LastTaskFor(bucket) ==
    CHOOSE i \in TasksFor(bucket) :
        \A j \in TasksFor(bucket) : futures[j].collected <= futures[i].collected

\* C24: for any list of bucket names and any completion order,
\* collect_inventory returns only after every task has finished, with exactly
\* one record for each distinct requested name; the record of a name is that
\* of the task submitted for it that the as_completed loop took last (its
\* only task if the name was requested once): an error record with
\* object_count 0 and total_size 0 if that task raised, else the record that
\* task returned.
C24_OneRecordPerName ==
    pc = "collected" =>
        /\ \A i \in 1..Len(futures) : futures[i].state = "done"
        /\ OneRecordEach
        /\ \A b \in Requested :
              LET i == LastTaskFor(b)
                  r == Get(inventory_data, b)
              IN  IF futures[i].outcome.kind = "raised"
                  THEN /\ r = ErrorRecord(b, futures[i].outcome.value)
                       /\ "error" \in DOMAIN r /\ r.object_count = 0 /\ r.total_size = 0
                  ELSE r = futures[i].outcome.value

\* C24 witness: three tasks for two names have ended, one of them raised, and
\* collect_inventory has returned
C24_Witness ==
    /\ pc = "collected"
    /\ Len(futures) = 3
    /\ Cardinality(Requested) = 2
    /\ \E i \in 1..Len(futures) : futures[i].outcome.kind = "raised"
    /\ \E i \in 1..Len(futures) : futures[i].outcome.kind = "returned"

\* the statement as it was made holds for lists without repeated names
OneRecordPerTaskOfDistinctNames ==
    Cardinality(Requested) = Len(futures) => C24_OneRecordPerTask

\* a name requested twice, one task raised and the other returned objects,
\* and the record kept is the one without error
MixedOutcomes ==
    /\ pc = "collected"
    /\ \E b \in Requested :
          /\ \E i \in TasksFor(b) : futures[i].outcome.kind = "raised"
          /\ "error" \notin DOMAIN Get(inventory_data, b)

----------------------------------------------------------------------------
(* The two storage class tables, checked under Spec *)

\* the entry of class c in the storage_class_breakdown of the metrics m
BreakdownOf(m, c) == Get(m.storage_class_breakdown, c)

\* the sum, over the buckets 1..n of bm, of storage_class_breakdown[c].count
RECURSIVE BreakdownCountIn(_, _, _)
BreakdownCountIn(bm, c, n) ==
    IF n = 0 THEN 0
    ELSE BreakdownCountIn(bm, c, n - 1)
         + (IF HasKey(bm[n].v.storage_class_breakdown, c) THEN BreakdownOf(bm[n].v, c).count
            ELSE 0)

\* the float sum, over the buckets 1..n of bm in iteration order, of
\* storage_class_breakdown[c].size, a bucket without the class adding 0
RECURSIVE BreakdownSizeIn(_, _, _)
BreakdownSizeIn(bm, c, n) ==
    IF n = 0 THEN FZero
    ELSE FAdd(BreakdownSizeIn(bm, c, n - 1),
              IF HasKey(bm[n].v.storage_class_breakdown, c) THEN BreakdownOf(bm[n].v, c).size
              ELSE FZero)

\* C27: for every non-errored record, one with object_count == 0 included, and
\* every storage class c of it, storage_class_breakdown[c].count equals the
\* record's storage_classes[c]; hence aggregate_account's
\* storage_classes[c].count is the sum over the buckets of
\* storage_class_breakdown[c].count.
C27_BreakdownCountIsTheCount ==
    pc = "account" =>
        /\ \A i \in 1..Len(bucket_metrics) :
              LET m == bucket_metrics[i].v
              IN  \A c \in KeySet(m.storage_classes) :
                      /\ HasKey(m.storage_class_breakdown, c)
                      /\ BreakdownOf(m, c).count = Get(m.storage_classes, c)
        /\ \A c \in ClassesOf(bucket_metrics) :
              Get(account_metrics.storage_classes, c).count
                  = BreakdownCountIn(bucket_metrics, c, Len(bucket_metrics))

\* a record with object_count == 0 that lists objects of a class: its
\* breakdown count is 0, and the account counts the objects all the same
C27_Witness ==
    /\ pc = "account"
    /\ \E i \in 1..Len(bucket_metrics) :
          LET m == bucket_metrics[i].v
          IN  /\ m.object_count = 0
              /\ \E c \in KeySet(m.storage_classes) :
                    /\ Get(m.storage_classes, c) > 0
                    /\ BreakdownOf(m, c).count = 0
                    /\ Get(account_metrics.storage_classes, c).count
                           > BreakdownCountIn(bucket_metrics, c, Len(bucket_metrics))

\* what the two tables do keep: the breakdown count is the record's count in
\* every bucket with objects, and the account's count is the sum of the
\* records' counts
BreakdownCountWithObjects ==
    pc = "account" =>
        /\ \A i \in 1..Len(bucket_metrics) :
              LET m == bucket_metrics[i].v
              IN  \A c \in KeySet(m.storage_classes) :
                      /\ m.object_count > 0 => BreakdownOf(m, c).count = Get(m.storage_classes, c)
                      /\ m.object_count = 0 => BreakdownOf(m, c).count = 0
        /\ \A c \in ClassesOf(bucket_metrics) :
              Get(account_metrics.storage_classes, c).count
                  = ClassCountIn(bucket_metrics, c, Len(bucket_metrics))

\* C28: for every storage class c, the storage_classes[c].size accumulated by
\* aggregate_account is the sum, over the buckets in iteration order, of the
\* storage_class_breakdown[c].size of _compute_bucket_metrics (0 for a bucket
\* without the class), and storage_classes[c].size_gb is that size / 1024^3,
\* after every bucket folded in.
C28_EstimatorsAgree ==
    pc = "account" =>
        \A n \in 0..Len(bucket_metrics) :
            LET folded == SubSeq(bucket_metrics, 1, n)
                classes == aggregate_account(folded).storage_classes
            IN  /\ KeySet(classes) = ClassesOf(folded)
                /\ \A c \in ClassesOf(folded) :
                      /\ Get(classes, c).size = BreakdownSizeIn(folded, c, n)
                      /\ Get(classes, c).size_gb = FDivPow2(Get(classes, c).size, GiBExp)
                /\ n = Len(bucket_metrics) => classes = account_metrics.storage_classes

\* C28 witness: a class held by two buckets with objects and lacked by a
\* third, with a size that is not 0
C28_Witness ==
    /\ pc = "account"
    /\ Len(bucket_metrics) = 3
    /\ \E c \in ClassesOf(bucket_metrics) :
          /\ \E i, j \in 1..3 :
                /\ i # j
                /\ bucket_metrics[i].v.object_count > 0
                /\ bucket_metrics[j].v.object_count > 0
                /\ HasKey(bucket_metrics[i].v.storage_classes, c)
                /\ HasKey(bucket_metrics[j].v.storage_classes, c)
                /\ BreakdownOf(bucket_metrics[i].v, c).size # FZero
          /\ \E i \in 1..3 : ~HasKey(bucket_metrics[i].v.storage_classes, c)
          /\ Get(account_metrics.storage_classes, c).size # FZero

----------------------------------------------------------------------------
(* get_top_extensions after aggregate_account, checked under SpecCalls *)

\* the list names the first min(n, len(exts)) entries of the mapping exts, in
\* its order, each with its count and size
IsHeadOf(list, exts, n) ==
    /\ Len(list) = Min(n, Len(exts))
    /\ \A i \in 1..Len(list) :
          /\ list[i].extension = exts[i].k
          /\ list[i].count = exts[i].v.count
          /\ list[i].size = exts[i].v.size

\* C29: for any mapping of bucket metrics M and any n >= 0,
\* get_top_extensions(aggregate_account(M), n) lists the same extensions, in
\* the same order and with the same count and size, as the first
\* min(n, number of extensions) entries of aggregate_account(M)
\* ["file_extensions"] in iteration order, ties included.
C29_TopExtensionsAreTheHead ==
    (Called /\ account_metrics # Unset) =>
        LET exts == account_metrics.file_extensions
        IN  /\ \A n \in 0..(Len(exts) + 1) :
                  IsHeadOf(get_top_extensions(account_metrics, n), exts, n)
            /\ (pc = "get_top_extensions" /\ top_n >= 0) => IsHeadOf(top, exts, top_n)

\* C29 witness: get_top_extensions has been called with more than the two
\* extensions of the account, which have the same count
C29_Witness ==
    /\ pc = "get_top_extensions"
    /\ top_n > 2
    /\ Len(account_metrics.file_extensions) = 2
    /\ account_metrics.file_extensions[1].v.count = account_metrics.file_extensions[2].v.count
    /\ Len(top) = 2

----------------------------------------------------------------------------
(* The stats command, checked under SpecStats *)

StatsEnded == pc \in {"stats", "exit_1"}

\* C30: for any loaded inventory whose non-errored records are well-formed,
\* the stats command computes its three tables without an arithmetic error,
\* in particular when the account has file extensions while total_size == 0
\* or total_objects == 0; it does not end in the error exit because of a
\* division by zero.
C30_StatsDoesNotDivideByZero ==
    StatsEnded => raised # "ZeroDivisionError"

\* the buckets hold zero-byte objects only, and the stats command has ended in
\* the error exit on a division by zero
C30_Witness ==
    /\ pc = "exit_1"
    /\ raised = "ZeroDivisionError"
    /\ top_n > 0
    /\ account_metrics.total_objects > 0
    /\ account_metrics.total_size = 0
    /\ account_metrics.file_extensions # EmptyDict

\* what the stats command does keep: a division by zero happens only in the
\* file extension table, when a row is printed and total_objects or total_size
\* is 0; and with rows to print and such a total it always happens
StatsDividesByZeroOnlyOnZeroTotals ==
    StatsEnded =>
        (raised = "ZeroDivisionError"
            <=> /\ account_metrics # Unset
                /\ SliceTo(account_metrics.file_extensions, top_n) # <<>>
                /\ account_metrics.total_objects = 0 \/ account_metrics.total_size = 0)
        \/ raised \in {"RuntimeError", "KeyError"}

====
